---- MODULE Spec2Model ----
(***************************************************************************)
(* A model of vps.js: the security audit run (runAudit), its output        *)
(* parsers and the remote command runner it rests on.                      *)
(*                                                                         *)
(* Text is modelled as a sequence of one-character strings, so that the    *)
(* substring, prefix and pattern tests of the source are computed on the   *)
(* characters and not assumed.  "INACTIVE" is the sequence                 *)
(* <<"I","N","A","C","T","I","V","E">>.                                    *)
(***************************************************************************)
EXTENDS Integers, Sequences, FiniteSets, TLC

\* ------------------------------------------------------------------------
\* Text primitives (the JavaScript string methods the source calls)
\* ------------------------------------------------------------------------

MinOf(S) == CHOOSE x \in S : \A y \in S : x <= y

MaxOf(S) == CHOOSE x \in S : \A y \in S : x >= y

\* The white space String.prototype.trim and the pattern \s strip, among the
\* characters the model's texts hold.
IsWhitespace(c) == c \in {" ", "\t", "\n", "\r"}

IsDigit(c) == c \in {"0", "1", "2", "3", "4", "5", "6", "7", "8", "9"}

UpperLetters == <<"A","B","C","D","E","F","G","H","I","J","K","L","M",
                  "N","O","P","Q","R","S","T","U","V","W","X","Y","Z">>

LowerLetters == <<"a","b","c","d","e","f","g","h","i","j","k","l","m",
                  "n","o","p","q","r","s","t","u","v","w","x","y","z">>

IsUpper(c) == \E i \in 1..Len(UpperLetters) : UpperLetters[i] = c

IsLower(c) == \E i \in 1..Len(LowerLetters) : LowerLetters[i] = c

IsLetter(c) == IsUpper(c) \/ IsLower(c)

LowerChar(c) ==
    IF IsUpper(c)
    THEN LowerLetters[CHOOSE i \in 1..Len(UpperLetters) : UpperLetters[i] = c]
    ELSE c

\* A text left in the case it was written in: what a comparison that forgets
\* .toLowerCase() reads.
asWritten(s) == s

\* s.toLowerCase()
toLowerCase(s) == [i \in 1..Len(s) |-> LowerChar(s[i])]

\* s.trim()
trim(s) ==
    LET keep == {i \in 1..Len(s) : ~IsWhitespace(s[i])}
    IN  IF keep = {} THEN <<>> ELSE SubSeq(s, MinOf(keep), MaxOf(keep))

\* s.trimStart()
trimStart(s) ==
    LET keep == {i \in 1..Len(s) : ~IsWhitespace(s[i])}
    IN  IF keep = {} THEN <<>> ELSE SubSeq(s, MinOf(keep), Len(s))

\* s.indexOf(sub, from): the 0-based index of the first occurrence at or after
\* from, -1 when there is none.
indexOf(s, sub, from) ==
    LET at == {i \in from..(Len(s) - Len(sub)) : SubSeq(s, i + 1, i + Len(sub)) = sub}
    IN  IF at = {} THEN -1 ELSE MinOf(at)

\* s.includes(sub)
includes(s, sub) == indexOf(s, sub, 0) # -1

\* s.startsWith(sub)
startsWith(s, sub) == Len(s) >= Len(sub) /\ SubSeq(s, 1, Len(sub)) = sub

\* s.slice(from), 0-based, from >= 0.
sliceFrom(s, from) == SubSeq(s, from + 1, Len(s))

\* The members of a finite set of integers in increasing order.
RECURSIVE ascending(_)
ascending(S) ==
    IF S = {} THEN <<>> ELSE <<MinOf(S)>> \o ascending(S \ {MinOf(S)})

\* s.split(c) for a one-character separator: the pieces between consecutive
\* separators, the ends of the text included, so "".split(c) is [""].
split(s, c) ==
    LET cuts == ascending({0} \cup {i \in 1..Len(s) : s[i] = c} \cup {Len(s) + 1})
    IN  [k \in 1..(Len(cuts) - 1) |-> SubSeq(s, cuts[k] + 1, cuts[k + 1] - 1)]

\* parts.join(c)
join(parts, c) ==
    LET joined[k \in 0..Len(parts)] ==
            IF k = 0 THEN <<>>
            ELSE IF k = 1 THEN parts[1]
            ELSE joined[k - 1] \o <<c>> \o parts[k]
    IN  joined[Len(parts)]

\* The length of the longest prefix of s made of decimal digits (\d+ is greedy).
digitSpan(s) ==
    LET stop == {i \in 1..Len(s) : ~IsDigit(s[i])}
    IN  IF stop = {} THEN Len(s) ELSE MinOf(stop) - 1

DigitValue(c) == CHOOSE d \in 0..9 : <<"0","1","2","3","4","5","6","7","8","9">>[d + 1] = c

\* parseInt(digits, 10) for a non-empty text of decimal digits.
RECURSIVE parseInt(_)
parseInt(digits) ==
    IF digits = <<>> THEN 0
    ELSE 10 * parseInt(SubSeq(digits, 1, Len(digits) - 1)) + DigitValue(digits[Len(digits)])

\* String(n) for a natural number: the text a template literal `${n}` renders.
RECURSIVE numberToString(_)
numberToString(n) ==
    LET d == <<"0","1","2","3","4","5","6","7","8","9">>[(n % 10) + 1]
    IN  IF n < 10 THEN <<d>> ELSE numberToString(n \div 10) \o <<d>>

\* ------------------------------------------------------------------------
\* Remote command runner (lib/ssh)
\* ------------------------------------------------------------------------

\* What running the local ssh process can come to: it could not be spawned
\* (Bun.spawn throws, with an error text), or it ran and exited with a code,
\* having written stdout and stderr.
SpawnError(text) == [spawned |-> FALSE, error |-> text, exitCode |-> 0,
                     stdout |-> <<>>, stderr |-> <<>>]

Exited(code, out, err) == [spawned |-> TRUE, error |-> <<>>, exitCode |-> code,
                           stdout |-> out, stderr |-> err]

\* A mutation of sshExec: the catch block gives the result of a process that
\* ended well, without the error text.
sshExecLosesError(outcome) ==
    [stdout   |-> trim(outcome.stdout),
     stderr   |-> trim(outcome.stderr),
     exitCode |-> outcome.exitCode,
     success  |-> outcome.exitCode = 0]

\* sshExec: the SSHResult built from the outcome of the ssh process.
sshExec(outcome) ==
    IF outcome.spawned
    THEN [stdout   |-> trim(outcome.stdout),
          stderr   |-> trim(outcome.stderr),
          exitCode |-> outcome.exitCode,
          success  |-> outcome.exitCode = 0]
    ELSE [stdout   |-> <<>>,
          stderr   |-> outcome.error,
          exitCode |-> 1,
          success  |-> FALSE]

\* A mutation of the lines below: the lines are not trimmed.
nonEmptyLinesAsWritten(output) ==
    LET all  == split(output, "\n")
        keep == ascending({i \in 1..Len(all) : all[i] # <<>>})
    IN  [k \in 1..Len(keep) |-> all[keep[k]]]

\* The lines of a text, each trimmed, the empty ones dropped.
nonEmptyTrimmedLines(output) ==
    LET all  == split(output, "\n")
        keep == ascending({i \in 1..Len(all) : trim(all[i]) # <<>>})
    IN  [k \in 1..Len(keep) |-> trim(all[keep[k]])]

\* A mutation of filterMOTDFromOutput: the last line is looked for only when
\* no marker is given.
filterMOTDMarkerOrAll(output, outputMarker) ==
    IF outputMarker # <<>>
    THEN IF indexOf(output, outputMarker, 0) # -1
         THEN sliceFrom(output, indexOf(output, outputMarker, 0))
         ELSE trim(output)
    ELSE IF Len(nonEmptyTrimmedLines(output)) > 0
    THEN nonEmptyTrimmedLines(output)[Len(nonEmptyTrimmedLines(output))]
    ELSE trim(output)

\* filterMOTDFromOutput(output, outputMarker).  An omitted marker is the empty
\* text: `if (outputMarker)` takes undefined and "" alike.
filterMOTDFromOutput(output, outputMarker) ==
    LET markerIndex == indexOf(output, outputMarker, 0)
        lines       == nonEmptyTrimmedLines(output)
    IN  IF outputMarker # <<>> /\ markerIndex # -1
        THEN sliceFrom(output, markerIndex)
        ELSE IF Len(lines) > 0 THEN lines[Len(lines)] ELSE trim(output)

\* ------------------------------------------------------------------------
\* parseSSHConfig (commands/audit)
\* ------------------------------------------------------------------------

\* `x || dflt` on texts: the empty text (and undefined, modelled as the empty
\* text) is falsy.
\* A mutation of it: the empty text is kept.
orNothing(x, dflt) == x

orDefault(x, dflt) == IF x = <<>> THEN dflt ELSE x

\* One iteration of the loop over the lines: the partial config after `line`.
parseSSHConfigLine(partial, line) ==
    LET trimmed == trim(line)
        fields  == split(trimmed, "=")
    IN  IF startsWith(trimmed, <<"P","E","R","M","I","T","_","R","O","O","T","=">>)
        THEN [partial EXCEPT !.permitRootLogin = orDefault(fields[2], <<"u","n","k","n","o","w","n">>)]
        ELSE IF startsWith(trimmed, <<"P","A","S","S","W","O","R","D","_","A","U","T","H","=">>)
        THEN [partial EXCEPT !.passwordAuthentication = orDefault(fields[2], <<"u","n","k","n","o","w","n">>)]
        ELSE IF startsWith(trimmed, <<"C","H","A","L","L","E","N","G","E","_","R","E","S","P","=">>)
        THEN [partial EXCEPT !.challengeResponseAuthentication =
                                IF fields[2] = <<>> THEN <<"n","o">> ELSE fields[2]]
        ELSE IF startsWith(trimmed, <<"A","L","L","O","W","_","U","S","E","R","S","=">>)
        THEN [partial EXCEPT !.allowUsers = orDefault(join(Tail(fields), "="), <<"n","o","t"," ","s","e","t">>)]
        ELSE IF startsWith(trimmed, <<"U","S","E","_","D","N","S","=">>)
        THEN [partial EXCEPT !.useDNS = orDefault(fields[2], <<"u","n","k","n","o","w","n">>)]
        ELSE partial

RECURSIVE parseSSHConfigLines(_, _)
parseSSHConfigLines(partial, lines) ==
    IF lines = <<>> THEN partial
    ELSE parseSSHConfigLines(parseSSHConfigLine(partial, Head(lines)), Tail(lines))

parseSSHConfig(output) ==
    LET partial == parseSSHConfigLines(
                      [permitRootLogin |-> <<>>, passwordAuthentication |-> <<>>,
                       challengeResponseAuthentication |-> <<>>, allowUsers |-> <<>>,
                       useDNS |-> <<>>],
                      split(output, "\n"))
    IN  [permitRootLogin                 |-> orDefault(partial.permitRootLogin, <<"u","n","k","n","o","w","n">>),
         passwordAuthentication          |-> orDefault(partial.passwordAuthentication, <<"u","n","k","n","o","w","n">>),
         challengeResponseAuthentication |-> orDefault(partial.challengeResponseAuthentication, <<"n","o">>),
         allowUsers                      |-> orDefault(partial.allowUsers, <<"n","o","t"," ","s","e","t">>),
         useDNS                          |-> orDefault(partial.useDNS, <<"u","n","k","n","o","w","n">>)]

\* ------------------------------------------------------------------------
\* parseListeningPorts (commands/audit)
\* ------------------------------------------------------------------------

\* Pattern matching by position: a position is the 1-based index of the next
\* character to read, and 0 says the match failed.
afterDigits(s, i) ==
    IF i = 0 \/ i > Len(s) THEN 0
    ELSE LET n == digitSpan(SubSeq(s, i, Len(s)))
         IN  IF n = 0 THEN 0 ELSE i + n

afterLit(s, i, lit) ==
    IF i = 0 \/ i + Len(lit) - 1 > Len(s) THEN 0
    ELSE IF SubSeq(s, i, i + Len(lit) - 1) = lit THEN i + Len(lit) ELSE 0

\* An optional literal: taken when present (no alternative of the patterns
\* below can match after giving it back).
afterOptLit(s, i, lit) ==
    IF i = 0 THEN 0
    ELSE IF afterLit(s, i, lit) # 0 THEN afterLit(s, i, lit) ELSE i

\* [0-9]+\.[0-9]+\.[0-9]+\.[0-9]+:[0-9]+
endIPv4(s, i) ==
    LET a == afterLit(s, afterDigits(s, i), <<".">>)
        b == afterLit(s, afterDigits(s, a), <<".">>)
        c == afterLit(s, afterDigits(s, b), <<".">>)
        d == afterLit(s, afterDigits(s, c), <<":">>)
    IN  afterDigits(s, d)

\* \[?::\]?:[0-9]+
endAnyV6(s, i) ==
    LET a == afterLit(s, afterOptLit(s, i, <<"[">>), <<":",":">>)
        b == afterLit(s, afterOptLit(s, a, <<"]">>), <<":">>)
    IN  afterDigits(s, b)

\* \[::1\]:[0-9]+
endBracketLoopV6(s, i) == afterDigits(s, afterLit(s, i, <<"[",":",":","1","]",":">>))

\* ::1:[0-9]+
endLoopV6(s, i) == afterDigits(s, afterLit(s, i, <<":",":","1",":">>))

\* \*:[0-9]+
endWildcard(s, i) == afterDigits(s, afterLit(s, i, <<"*",":">>))

\* The first of the alternatives' ends that is a match, 0 when none is.
firstMatch(ends) ==
    LET hit == {k \in 1..Len(ends) : ends[k] # 0}
    IN  IF hit = {} THEN 0 ELSE ends[MinOf(hit)]

\* The end of the group of the address:port pattern started at i: the first
\* alternative that matches there.
endAddrPort(s, i) ==
    firstMatch(<<endIPv4(s, i), endAnyV6(s, i), endBracketLoopV6(s, i),
                 endLoopV6(s, i), endWildcard(s, i)>>)

\* The text of the leftmost of the matches <<start, end>> in line, the empty
\* text when there is none.
leftmostGroup(line, matches) ==
    IF matches = {} THEN <<>>
    ELSE LET m == CHOOSE x \in matches : \A y \in matches : x[1] <= y[1]
         IN  SubSeq(line, m[1], m[2] - 1)

\* line.match(/(?:^|\s)(...)/)[1]: the group of the leftmost match, which
\* starts at the start of the line or right after a white-space character;
\* the empty text when nothing matches.
addrPortMatch(line) ==
    leftmostGroup(line,
        {m \in {<<i, endAddrPort(line, i)>> : i \in 1..Len(line)} :
            /\ m[1] = 1 \/ IsWhitespace(line[m[1] - 1])
            /\ m[2] # 0})

\* line.match(/users:\(\("([^"]+)"/)[1], the empty text for no match
\* (undefined in the source: both are falsy where the name is used).
processMatch(line) ==
    LET open == <<"u","s","e","r","s",":","(","(","\"">>
        nameAt(i) == LET rest == SubSeq(line, i + Len(open), Len(line))
                         q    == {k \in 1..Len(rest) : rest[k] = "\""}
                     IN  IF q = {} \/ MinOf(q) = 1 THEN <<>>
                         ELSE SubSeq(rest, 1, MinOf(q) - 1)
        at == {i \in 1..(Len(line) - Len(open) + 1) :
                  /\ SubSeq(line, i, i + Len(open) - 1) = open
                  /\ nameAt(i) # <<>>}
    IN  IF at = {} THEN <<>> ELSE nameAt(MinOf(at))

\* The protocol of a line, from its first field.
lineProtocol(line) ==
    LET trimmed == trim(line)
        ws      == {i \in 1..Len(trimmed) : IsWhitespace(trimmed[i])}
        first   == IF ws = {} THEN trimmed ELSE SubSeq(trimmed, 1, MinOf(ws) - 1)
    IN  IF startsWith(toLowerCase(first), <<"t","c","p">>) THEN <<"T","C","P">>
        ELSE IF startsWith(toLowerCase(first), <<"u","d","p">>) THEN <<"U","D","P">>
        ELSE <<"T","C","P">>

\* The bind address and the port text of a matched address:port; the port is
\* empty when none of the anchored patterns takes the text.
splitAddrPort(addrPort) ==
    LET full(e) == e = Len(addrPort) + 1
    IN  IF full(endIPv4(addrPort, 1))
        THEN [bind |-> split(addrPort, ":")[1], port |-> split(addrPort, ":")[2]]
        ELSE IF full(afterDigits(addrPort, afterLit(addrPort, 1, <<"[",":",":","]",":">>)))
        THEN [bind |-> <<":",":">>, port |-> sliceFrom(addrPort, 5)]
        ELSE IF full(afterDigits(addrPort, afterLit(addrPort, 1, <<":",":",":">>)))
        THEN [bind |-> <<":",":">>, port |-> sliceFrom(addrPort, 3)]
        ELSE IF full(endBracketLoopV6(addrPort, 1))
        THEN [bind |-> <<":",":","1">>, port |-> sliceFrom(addrPort, 6)]
        ELSE IF full(endLoopV6(addrPort, 1))
        THEN [bind |-> <<":",":","1">>, port |-> sliceFrom(addrPort, 5)]
        ELSE IF full(endWildcard(addrPort, 1))
        THEN [bind |-> <<"*">>, port |-> sliceFrom(addrPort, 2)]
        ELSE [bind |-> <<>>, port |-> <<>>]

ExpectedPorts == {22, 53, 123}

\* An addPort that takes every address but the loopback ones for exposed.
addPortAnyBind(acc, protocol, ap, process) ==
    LET portNum        == parseInt(ap.port)
        isLocalhost    == ap.bind = <<"1","2","7",".","0",".","0",".","1">> \/ ap.bind = <<":",":","1">>
        isExpectedPort == portNum \in ExpectedPorts
        key            == protocol \o <<":">> \o ap.port
    IN  [acc EXCEPT
            !.allPorts   = Append(@, [protocol |-> protocol, port |-> ap.port,
                                      process |-> process, bind |-> ap.bind]),
            !.exposedMap =
                IF /\ ~isLocalhost /\ ~isExpectedPort
                   /\ \A k \in 1..Len(@) : @[k].key # key
                THEN Append(@, [key |-> key, protocol |-> protocol, port |-> portNum,
                                process |-> process, bindAddress |-> ap.bind])
                ELSE @]

\* An addPort that sets the map entry without asking whether the key is there.
addPortUnkeyed(acc, protocol, ap, process) ==
    LET portNum        == parseInt(ap.port)
        isExposed      == ap.bind = <<"0",".","0",".","0",".","0">> \/ ap.bind = <<":",":">> \/ ap.bind = <<"*">>
        isLocalhost    == ap.bind = <<"1","2","7",".","0",".","0",".","1">> \/ ap.bind = <<":",":","1">>
        isExpectedPort == portNum \in ExpectedPorts
        key            == protocol \o <<":">> \o ap.port
    IN  [acc EXCEPT
            !.allPorts   = Append(@, [protocol |-> protocol, port |-> ap.port,
                                      process |-> process, bind |-> ap.bind]),
            !.exposedMap =
                IF isExposed /\ ~isLocalhost /\ ~isExpectedPort
                THEN Append(@, [key |-> key, protocol |-> protocol, port |-> portNum,
                                process |-> process, bindAddress |-> ap.bind])
                ELSE @]

\* The end of an iteration that parsed a bind address and a port: the port
\* joins allPorts, and exposedMap when it is exposed, not an expected port and
\* its key is new.  acc holds allPorts and exposedMap, the map as its entries
\* in insertion order.
addPort(acc, protocol, ap, process) ==
    LET portNum        == parseInt(ap.port)
        isExposed      == ap.bind = <<"0",".","0",".","0",".","0">> \/ ap.bind = <<":",":">> \/ ap.bind = <<"*">>
        isLocalhost    == ap.bind = <<"1","2","7",".","0",".","0",".","1">> \/ ap.bind = <<":",":","1">>
        isExpectedPort == portNum \in ExpectedPorts
        key            == protocol \o <<":">> \o ap.port
    IN  [acc EXCEPT
            !.allPorts   = Append(@, [protocol |-> protocol, port |-> ap.port,
                                      process |-> process, bind |-> ap.bind]),
            !.exposedMap =
                IF /\ isExposed /\ ~isLocalhost /\ ~isExpectedPort
                   /\ \A k \in 1..Len(@) : @[k].key # key
                THEN Append(@, [key |-> key, protocol |-> protocol, port |-> portNum,
                                process |-> process, bindAddress |-> ap.bind])
                ELSE @]

\* The iteration from the address:port match on: `continue` when the match or
\* the port is missing.
addMatched(acc, protocol, addrPort, ap, process) ==
    IF addrPort = <<>> THEN acc
    ELSE IF ap.port = <<>> THEN acc
    ELSE addPort(acc, protocol, ap, process)

\* One iteration of the loop over the lines.
parseListeningLine(acc, line) ==
    IF ~includes(line, <<"L","I","S","T","E","N">>) THEN acc
    ELSE addMatched(acc, lineProtocol(line), addrPortMatch(line),
                    splitAddrPort(addrPortMatch(line)), processMatch(line))

RECURSIVE parseListeningLines(_, _)
parseListeningLines(acc, lines) ==
    IF lines = <<>> THEN acc
    ELSE parseListeningLines(parseListeningLine(acc, Head(lines)), Tail(lines))

\* Array.from(exposedMap.values())
mapValues(exposedMap) ==
    [k \in 1..Len(exposedMap) |->
        [protocol    |-> exposedMap[k].protocol,
         port        |-> exposedMap[k].port,
         process     |-> exposedMap[k].process,
         bindAddress |-> exposedMap[k].bindAddress]]

portsOf(acc) == [allPorts |-> acc.allPorts, exposedPorts |-> mapValues(acc.exposedMap)]

parseListeningPorts(ssOutput) ==
    portsOf(parseListeningLines([allPorts |-> <<>>, exposedMap |-> <<>>],
                                split(ssOutput, "\n")))

\* ------------------------------------------------------------------------
\* runAudit: the checks of each probe (commands/audit)
\* ------------------------------------------------------------------------

\* A message: its fixed text and the text interpolated into it (empty when
\* the message has no ${...} part).
Msg(text, arg) == <<text, arg>>

\* An AuditCheck {type, message}.
Pass(text, arg) == [type |-> "pass", message |-> Msg(text, arg)]

Fail(text, arg) == [type |-> "fail", message |-> Msg(text, arg)]

Warn(text, arg) == [type |-> "warn", message |-> Msg(text, arg)]

\* The AuditResults at the start of a run.
NoResults == [passed |-> 0, failed |-> 0, warnings |-> 0,
              passedItems |-> <<>>, failedItems |-> <<>>, warnedItems |-> <<>>]

checkPass(res, message) ==
    [res EXCEPT !.passed = @ + 1, !.passedItems = Append(@, message)]

checkFail(res, message) ==
    [res EXCEPT !.failed = @ + 1, !.failedItems = Append(@, message)]

\* A checkWarn that pushes the message and leaves the counter alone.
checkWarnUncounted(res, message) ==
    [res EXCEPT !.warnedItems = Append(@, message)]

checkWarn(res, message) ==
    [res EXCEPT !.warnings = @ + 1, !.warnedItems = Append(@, message)]

\* The results after one check.
recordCheck(res, c) ==
    IF c.type = "pass" THEN checkPass(res, c.message)
    ELSE IF c.type = "fail" THEN checkFail(res, c.message)
    ELSE checkWarn(res, c.message)

\* The results after the checks of a probe, made in order.
recordChecks(res, checks) ==
    LET after[i \in 0..Len(checks)] ==
            IF i = 0 THEN res ELSE recordCheck(after[i - 1], checks[i])
    IN  after[Len(checks)]

\* The lines checkPass, checkFail and checkWarn print: [OK], [FAIL], [WARN].
checkLines(checks) ==
    [i \in 1..Len(checks) |->
        <<IF checks[i].type = "pass" THEN "OK"
          ELSE IF checks[i].type = "fail" THEN "FAIL" ELSE "WARN",
          checks[i].message>>]

\* SSH connectivity.
connectivityChecks(testResult, vpsConfig) ==
    IF testResult.success
    THEN <<Pass("SSH connection successful", <<>>)>>
    ELSE <<Fail("Cannot SSH into ", vpsConfig.vpsUser \o <<"@">> \o vpsConfig.vpsHost)>>

\* SSH hardening.
sshHardeningChecks(sshCheckResult, vpsConfig) ==
    LET sshConfig == parseSSHConfig(sshCheckResult.stdout)
    IN  IF ~sshCheckResult.success
        THEN <<Fail("Could not retrieve SSH configuration", <<>>)>>
        ELSE << IF toLowerCase(sshConfig.permitRootLogin) = <<"n","o">>
                THEN Pass("Root login disabled", <<>>)
                ELSE Fail("Root login is enabled (should be 'no')", <<>>),
                IF toLowerCase(sshConfig.passwordAuthentication) = <<"n","o">>
                THEN Pass("Password authentication disabled", <<>>)
                ELSE Fail("Password authentication enabled (should be 'no')", <<>>),
                IF \/ toLowerCase(sshConfig.challengeResponseAuthentication) = <<"n","o">>
                   \/ sshConfig.challengeResponseAuthentication = <<>>
                THEN Pass("Challenge-response authentication disabled", <<>>)
                ELSE Warn("Challenge-response authentication enabled (should be 'no')", <<>>),
                IF sshConfig.allowUsers = vpsConfig.vpsUser
                THEN Pass("AllowUsers restricts access to ", vpsConfig.vpsUser)
                ELSE IF sshConfig.allowUsers = <<"n","o","t"," ","s","e","t">>
                THEN Warn("AllowUsers not configured", <<>>)
                ELSE Warn("AllowUsers set to: ", sshConfig.allowUsers),
                IF toLowerCase(sshConfig.useDNS) = <<"n","o">>
                THEN Pass("UseDNS disabled (faster connections)", <<>>)
                ELSE Warn("UseDNS enabled (may slow connections)", <<>>) >>

\* The length of the longest prefix of s made of white space (\s* is greedy).
whitespaceSpan(s) ==
    LET stop == {i \in 1..Len(s) : ~IsWhitespace(s[i])}
    IN  IF stop = {} THEN Len(s) ELSE MinOf(stop) - 1

\* s.match(/status:\s*active/i)
matchesStatusActive(s) ==
    LET low == toLowerCase(s)
    IN  \E i \in 1..Len(low) :
            LET a == afterLit(low, i, <<"s","t","a","t","u","s",":">>)
            IN  /\ a # 0
                /\ afterLit(low, a + whitespaceSpan(SubSeq(low, a, Len(low))), <<"a","c","t","i","v","e">>) # 0

\* Firewall: the ufw output after filtering, and whether it shows ufw active.
ufwStatusOf(ufwResult) == filterMOTDFromOutput(ufwResult.stdout, <<"S","t","a","t","u","s",":">>)

\* An activity test that looks for the text as ufw prints it, case and
\* spacing included.
ufwIsActiveExact(ufwStatus) == includes(ufwStatus, <<"S","t","a","t","u","s",":"," ","a","c","t","i","v","e">>)

ufwIsActive(ufwStatus) ==
    LET ufwStatusLower == toLowerCase(ufwStatus)
    IN  \/ includes(ufwStatusLower, <<"s","t","a","t","u","s",":"," ","a","c","t","i","v","e">>)
        \/ includes(ufwStatusLower, <<"s","t","a","t","u","s",":","a","c","t","i","v","e">>)
        \/ matchesStatusActive(ufwStatusLower)

firewallChecks(ufwResult) ==
    LET ufwStatus      == ufwStatusOf(ufwResult)
        ufwStatusLower == toLowerCase(ufwStatus)
    IN  IF ufwIsActive(ufwStatus)
        THEN << Pass("UFW firewall is active", <<>>),
                IF includes(ufwStatusLower, <<"o","p","e","n","s","s","h">>)
                THEN Pass("OpenSSH allowed in firewall", <<>>)
                ELSE Fail("OpenSSH not explicitly allowed in firewall", <<>>) >>
        ELSE << Fail("UFW firewall is NOT active", <<>>) >>

\* The lines the firewall probe prints besides its checks: the warning for an
\* empty output (before the checks) and the hint for an inactive firewall
\* (after them).
firewallNotice(ufwResult) ==
    IF trim(ufwStatusOf(ufwResult)) = <<>>
    THEN << <<"WARN", Msg("UFW command returned no output", <<>>)>> >>
    ELSE <<>>

firewallHint(ufwResult) ==
    IF ufwIsActive(ufwStatusOf(ufwResult)) THEN <<>>
    ELSE << <<"INFO", Msg("To enable UFW, run on the VPS: sudo ufw enable", <<>>)>>,
            <<"INFO", Msg("Make sure to allow SSH first: sudo ufw allow OpenSSH", <<>>)>> >>

\* Fail2Ban.
fail2banChecks(fail2banResult) ==
    LET fail2banStatus == fail2banResult.stdout
    IN  IF includes(fail2banStatus, <<"A","C","T","I","V","E">>)
        THEN << Pass("Fail2Ban is running", <<>>) >>
             \o (IF includes(fail2banStatus, <<"N","O","_","J","A","I","L">>)
                 THEN << Warn("Fail2Ban active but sshd jail not configured", <<>>) >>
                 ELSE <<>>)
        ELSE << Fail("Fail2Ban is NOT running", <<>>) >>

\* Unattended upgrades.
unattendedChecks(unattendedResult) ==
    LET unattendedStatus == unattendedResult.stdout
    IN  IF includes(unattendedStatus, <<"E","N","A","B","L","E","D">>)
        THEN << Pass("Unattended upgrades enabled", <<>>),
                IF includes(unattendedStatus, <<"A","C","T","I","V","E">>)
                THEN Pass("Unattended upgrades service active", <<>>)
                ELSE Warn("Unattended upgrades enabled but service not active", <<>>) >>
        ELSE << Fail("Unattended upgrades NOT enabled", <<>>) >>

\* Pending security updates.
updateCountOf(updateResult) ==
    LET output == trim(updateResult.stdout)
    IN  IF digitSpan(output) > 0 THEN parseInt(SubSeq(output, 1, digitSpan(output))) ELSE 0

updatesChecks(updateResult) ==
    LET updateCount == updateCountOf(updateResult)
    IN  IF updateCount = 0
        THEN << Pass("No pending security updates", <<>>) >>
        ELSE << Warn(" security update(s) available", numberToString(updateCount)) >>

\* The positions at which ^ matches under the m flag: the start of the text
\* and right after a line terminator.
lineStarts(s) == {i \in 1..(Len(s) + 1) : i = 1 \/ s[i - 1] \in {"\n", "\r"}}

\* dockerOutput.match(/^(\d+\.\d+\.\d+)/m)[1], the empty text for no match.
dockerVersionMatch(s) ==
    LET endAt(i) == afterDigits(s, afterLit(s, afterDigits(s, afterLit(s, afterDigits(s, i), <<".">>)), <<".">>))
        at == {i \in lineStarts(s) : endAt(i) # 0}
    IN  IF at = {} THEN <<>> ELSE SubSeq(s, MinOf(at), endAt(MinOf(at)) - 1)

\* Docker security.  groupsResult is read only when the groups query is made.
dockerInstalled(dockerResult) == includes(dockerResult.stdout, <<"I","N","S","T","A","L","L","E","D">>)

dockerChecks(dockerResult, groupsResult, vpsConfig) ==
    LET dockerOutput == dockerResult.stdout
        versionMatch == dockerVersionMatch(dockerOutput)
    IN  IF dockerInstalled(dockerResult)
        THEN << IF versionMatch # <<>> /\ versionMatch # <<"E","R","R","O","R">>
                THEN Pass("Docker installed (version: )", versionMatch)
                ELSE Pass("Docker installed", <<>>) >>
             \o (IF includes(dockerOutput, <<"D","A","E","M","O","N","_","J","S","O","N","_","E","X","I","S","T","S">>)
                 THEN << Pass("Docker daemon.json exists", <<>>),
                         IF includes(dockerOutput, <<"u","s","e","r","n","s","-","r","e","m","a","p">>)
                         THEN Pass("Docker user namespace remap configured", <<>>)
                         ELSE Warn("Docker user namespace remap not configured in daemon.json", <<>>),
                         IF includes(dockerOutput, <<"l","o","g","-","d","r","i","v","e","r">>)
                         THEN Pass("Docker log driver configured", <<>>)
                         ELSE Warn("Docker log driver not configured", <<>>) >>
                 ELSE << Warn("Docker daemon.json not found", <<>>) >>)
             \o (IF includes(dockerOutput, <<"U","S","E","R","N","S","_","E","N","A","B","L","E","D">>)
                 THEN << Pass("Docker user namespace remap active", <<>>) >>
                 ELSE IF includes(dockerOutput, <<"U","S","E","R","N","S","_","D","I","S","A","B","L","E","D">>)
                 THEN << Warn("Docker user namespace remap not active", <<>>) >>
                 ELSE <<>>)
             \o << IF includes(groupsResult.stdout, <<"d","o","c","k","e","r">>)
                   THEN Pass("User  is in docker group", vpsConfig.vpsUser)
                   ELSE Warn("User  is NOT in docker group", vpsConfig.vpsUser) >>
        ELSE << Warn("Docker not installed", <<>>) >>

\* The end of a match of [A-Za-z]+\/[A-Za-z_]+ started at i (the second run
\* taken whole), 0 for none.
endAreaCity(s, i) ==
    LET rest1 == SubSeq(s, i, Len(s))
        stop1 == {k \in 1..Len(rest1) : ~IsLetter(rest1[k])}
        n1    == IF stop1 = {} THEN Len(rest1) ELSE MinOf(stop1) - 1
        slash == afterLit(s, IF n1 = 0 THEN 0 ELSE i + n1, <<"/">>)
        rest2 == IF slash = 0 THEN <<>> ELSE SubSeq(s, slash, Len(s))
        stop2 == {k \in 1..Len(rest2) : ~(IsLetter(rest2[k]) \/ rest2[k] = "_")}
        n2    == IF stop2 = {} THEN Len(rest2) ELSE MinOf(stop2) - 1
    IN  IF slash = 0 \/ n2 = 0 THEN 0 ELSE slash + n2

\* timezoneOutput.match(/^([A-Za-z]+\/[A-Za-z_]+)$/m)[1], the empty text for
\* no match: a whole line of that shape.
timezoneMatch(s) ==
    LET lineEnd(e) == e = Len(s) + 1 \/ s[e] \in {"\n", "\r"}
        at == {i \in lineStarts(s) : i <= Len(s) /\ endAreaCity(s, i) # 0
                                     /\ lineEnd(endAreaCity(s, i))}
    IN  IF at = {} THEN <<>> ELSE SubSeq(s, MinOf(at), endAreaCity(s, MinOf(at)) - 1)

\* Timezone and NTP.
timezoneChecks(timezoneResult) ==
    LET timezoneOutput == timezoneResult.stdout
        timezone == IF timezoneMatch(timezoneOutput) # <<>>
                    THEN timezoneMatch(timezoneOutput) ELSE <<"u","n","k","n","o","w","n">>
    IN  << IF timezone # <<"u","n","k","n","o","w","n">> /\ timezone # <<>>
           THEN Pass("Timezone configured: ", timezone)
           ELSE Warn("Timezone not configured", <<>>),
           IF includes(timezoneOutput, <<"N","T","P","_","A","C","T","I","V","E">>)
           THEN Pass("NTP service active", <<>>)
           ELSE Warn("NTP service not active", <<>>) >>

\* One line of the list of exposed ports: "    - TCP:8080 (node)".
exposedLine(p) ==
    <<" "," "," "," ","-"," ">> \o p.protocol \o <<":">> \o numberToString(p.port)
      \o (IF p.process # <<>> THEN <<" ","(">> \o p.process \o <<")">> ELSE <<>>)

\* The entry of the listening services check, from the probe's output and the
\* exposed ports parsed from it.
listeningReport(listening, exposedPorts) ==
    IF trim(listening) # <<>>
    THEN IF Len(exposedPorts) = 0
         THEN << Pass("Only SSH and essential system services (DNS, NTP) are exposed to all interfaces", <<>>) >>
         ELSE << Warn(" internet-accessible service(s) listening on ports:",
                      numberToString(Len(exposedPorts)) \o <<"\n">>
                        \o join([k \in 1..Len(exposedPorts) |-> exposedLine(exposedPorts[k])], "\n")) >>
    ELSE << Warn("Could not retrieve listening services", <<>>) >>

\* Listening services.
listeningChecks(listeningResult) ==
    listeningReport(listeningResult.stdout,
                    parseListeningPorts(listeningResult.stdout).exposedPorts)

\* A verdict that reads the warnings first: without warnings it reports
\* success, whatever failed.
verdictByWarnings(res) ==
    IF res.warnings = 0
    THEN [level |-> "SUCCESS", text |-> "All security checks passed!", exitCode |-> 0]
    ELSE IF res.failed = 0
    THEN [level |-> "INFO",
          text  |-> "All critical checks passed, but some warnings to review.",
          exitCode |-> 0]
    ELSE [level |-> "ALERT",
          text  |-> "Some security checks failed. Please review and fix.",
          exitCode |-> 1]

\* A verdict that treats a warning as a failure.
verdictStrict(res) ==
    IF res.failed = 0 /\ res.warnings = 0
    THEN [level |-> "SUCCESS", text |-> "All security checks passed!", exitCode |-> 0]
    ELSE [level |-> "ALERT",
          text  |-> "Some security checks failed. Please review and fix.",
          exitCode |-> 1]

\* The verdict: the level and text of the message printed, and the exit code.
verdictOf(res) ==
    IF res.failed = 0 /\ res.warnings = 0
    THEN [level |-> "SUCCESS", text |-> "All security checks passed!", exitCode |-> 0]
    ELSE IF res.failed = 0
    THEN [level |-> "INFO",
          text  |-> "All critical checks passed, but some warnings to review.",
          exitCode |-> 0]
    ELSE [level |-> "ALERT",
          text  |-> "Some security checks failed. Please review and fix.",
          exitCode |-> 1]

\* The section headers of the summary, each printed when its count is not 0.
summaryLines(res) ==
    << <<"SUMMARY", Msg("Security audit completed", <<>>)>> >>
    \o (IF res.passed > 0 THEN << <<"PASSED", Msg("", <<>>)>> >> ELSE <<>>)
    \o (IF res.failed > 0 THEN << <<"FAILURES", Msg("", <<>>)>> >> ELSE <<>>)
    \o (IF res.warnings > 0 THEN << <<"WARNINGS", Msg("", <<>>)>> >> ELSE <<>>)

\* ------------------------------------------------------------------------
\* What the remote host can answer to each command of the audit
\* ------------------------------------------------------------------------

\* The largest number of pending security updates the host reports.
MaxPendingUpdates == 2

\* A command that returns no data: ssh could not be spawned, or it exited
\* non-zero having written nothing to stdout.
NoData == { SpawnError(<<"E","N","O","E","N","T">>),
            Exited(255, <<>>, <<"C","o","n","n","e","c","t","i","o","n"," ","t","i","m","e","d"," ","o","u","t">>) }

ConnectOutcomes == NoData \cup { Exited(0, <<"O","K","\n">>, <<>>) }

SshCheckOutcomes ==
    NoData \cup
    { Exited(1, <<"E","R","R","O","R",":"," ","C","o","u","l","d"," ","n","o","t"," ","g","e","t"," ","S","S","H"," ","c","o","n","f","i","g","\n">>, <<>>),
      Exited(0, <<"P","E","R","M","I","T","_","R","O","O","T","=","n","o","\n","P","A","S","S","W","O","R","D","_","A","U","T","H","=","n","o","\n","C","H","A","L","L","E","N","G","E","_","R","E","S","P","=","n","o","\n","A","L","L","O","W","_","U","S","E","R","S","=","d","e","p","l","o","y","\n","U","S","E","_","D","N","S","=","n","o","\n">>, <<>>),
      Exited(0, <<"P","E","R","M","I","T","_","R","O","O","T","=","\n","P","A","S","S","W","O","R","D","_","A","U","T","H","=","\n","C","H","A","L","L","E","N","G","E","_","R","E","S","P","=","\n","A","L","L","O","W","_","U","S","E","R","S","=","\n","U","S","E","_","D","N","S","=","\n">>, <<>>),
      Exited(0, <<"P","E","R","M","I","T","_","R","O","O","T","=","y","e","s","\n","P","A","S","S","W","O","R","D","_","A","U","T","H","=","n","o","\n","C","H","A","L","L","E","N","G","E","_","R","E","S","P","=","y","e","s","\n","A","L","L","O","W","_","U","S","E","R","S","=","r","o","o","t","\n","U","S","E","_","D","N","S","=","y","e","s","\n">>, <<>>),
      Exited(0, <<"W","e","l","c","o","m","e"," ","t","o"," ","U","b","u","n","t","u","\n","P","E","R","M","I","T","_","R","O","O","T","=","N","O","\n","P","A","S","S","W","O","R","D","_","A","U","T","H","=","N","o","\n","C","H","A","L","L","E","N","G","E","_","R","E","S","P","=","N","O","\n","A","L","L","O","W","_","U","S","E","R","S","=","d","e","p","l","o","y","\n","U","S","E","_","D","N","S","=","N","O","\n">>, <<>>) }

UfwOutcomes ==
    NoData \cup
    { Exited(0, <<"S","t","a","t","u","s",":"," ","a","c","t","i","v","e","\n","L","o","g","g","i","n","g",":"," ","o","n"," ","(","l","o","w",")","\n","\n","T","o"," ","A","c","t","i","o","n"," ","F","r","o","m","\n","O","p","e","n","S","S","H"," ","A","L","L","O","W"," ","I","N"," ","A","n","y","w","h","e","r","e","\n">>, <<>>),
      Exited(0, <<"O","p","e","n","S","S","H"," ","b","a","n","n","e","r","\n","S","t","a","t","u","s",":"," ","a","c","t","i","v","e","\n","8","0","/","t","c","p"," ","A","L","L","O","W"," ","I","N"," ","A","n","y","w","h","e","r","e","\n">>, <<>>),
      Exited(0, <<"s","t","a","t","u","s",":"," "," ","a","c","t","i","v","e",","," ","o","p","e","n","s","s","h"," ","a","l","l","o","w","e","d","\n">>, <<>>),
      Exited(0, <<"S","t","a","t","u","s",":"," ","i","n","a","c","t","i","v","e","\n">>, <<>>),
      Exited(0, <<"\n">>, <<>>) }

UfwServiceOutcomes == { SpawnError(<<"E","N","O","E","N","T">>), Exited(0, <<"a","c","t","i","v","e","\n">>, <<>>) }

UfwEnabledOutcomes == { Exited(0, <<"d","i","s","a","b","l","e","d","\n">>, <<>>) }

Fail2banOutcomes ==
    NoData \cup
    { Exited(0, <<"A","C","T","I","V","E","\n","=","=","=","F","A","I","L","2","B","A","N","_","O","U","T","P","U","T","_","S","T","A","R","T","=","=","=","\n","S","t","a","t","u","s"," ","f","o","r"," ","t","h","e"," ","j","a","i","l",":"," ","s","s","h","d","\n","=","=","=","F","A","I","L","2","B","A","N","_","O","U","T","P","U","T","_","E","N","D","=","=","=","\n">>, <<>>),
      Exited(0, <<"A","C","T","I","V","E","\n","=","=","=","F","A","I","L","2","B","A","N","_","O","U","T","P","U","T","_","S","T","A","R","T","=","=","=","\n","N","O","_","J","A","I","L","\n","=","=","=","F","A","I","L","2","B","A","N","_","O","U","T","P","U","T","_","E","N","D","=","=","=","\n">>, <<>>),
      Exited(0, <<"I","N","A","C","T","I","V","E","\n">>, <<>>) }

UnattendedOutcomes ==
    NoData \cup
    { Exited(0, <<"E","N","A","B","L","E","D","\n","A","C","T","I","V","E","\n">>, <<>>),
      Exited(0, <<"E","N","A","B","L","E","D","\n">>, <<>>),
      Exited(0, <<"D","I","S","A","B","L","E","D","\n">>, <<>>) }

UpdateOutcomes ==
    NoData \cup
    { Exited(0, numberToString(n) \o <<"\n">>, <<>>) : n \in 0..MaxPendingUpdates }

DockerOutcomes ==
    NoData \cup
    { Exited(0, <<"N","O","T","_","I","N","S","T","A","L","L","E","D","\n">>, <<>>),
      Exited(0, <<"I","N","S","T","A","L","L","E","D","\n","2","4",".","0",".","7","\n","D","A","E","M","O","N","_","J","S","O","N","_","E","X","I","S","T","S","\n","{"," ","\"","u","s","e","r","n","s","-","r","e","m","a","p","\"",":"," ","\"","d","e","f","a","u","l","t","\"",","," ","\"","l","o","g","-","d","r","i","v","e","r","\"",":"," ","\"","j","s","o","n","-","f","i","l","e","\""," ","}","\n","U","S","E","R","N","S","_","E","N","A","B","L","E","D","\n">>, <<>>),
      Exited(0, <<"I","N","S","T","A","L","L","E","D","\n","N","O","_","D","A","E","M","O","N","_","J","S","O","N","\n","U","S","E","R","N","S","_","D","I","S","A","B","L","E","D","\n">>, <<>>) }

GroupsOutcomes ==
    { Exited(0, <<"d","e","p","l","o","y"," ","s","u","d","o"," ","d","o","c","k","e","r","\n">>, <<>>),
      Exited(0, <<"d","e","p","l","o","y"," ","s","u","d","o","\n">>, <<>>) }

TimezoneOutcomes ==
    NoData \cup
    { Exited(0, <<"E","u","r","o","p","e","/","A","m","s","t","e","r","d","a","m","\n","N","T","P","_","A","C","T","I","V","E","\n">>, <<>>),
      Exited(0, <<"U","T","C","\n","N","T","P","_","I","N","A","C","T","I","V","E","\n">>, <<>>) }

ListeningOutcomes ==
    NoData \cup
    { Exited(0, <<"S","t","a","t","e"," ","R","e","c","v","-","Q"," ","S","e","n","d","-","Q"," ","L","o","c","a","l"," ","A","d","d","r","e","s","s",":","P","o","r","t"," ","P","e","e","r"," ","A","d","d","r","e","s","s",":","P","o","r","t"," ","P","r","o","c","e","s","s","\n","L","I","S","T","E","N"," ","0"," ","1","2","8"," ","0",".","0",".","0",".","0",":","2","2"," ","0",".","0",".","0",".","0",":","*"," ","u","s","e","r","s",":","(","(","\"","s","s","h","d","\"",",","p","i","d","=","1",",","f","d","=","3",")",")","\n","L","I","S","T","E","N"," ","0"," ","8","0"," ","1","2","7",".","0",".","0",".","1",":","3","3","0","6"," ","0",".","0",".","0",".","0",":","*"," ","u","s","e","r","s",":","(","(","\"","m","y","s","q","l","d","\"",",","p","i","d","=","2",",","f","d","=","9",")",")","\n">>, <<>>),
      Exited(0, <<"L","I","S","T","E","N"," ","0"," ","1","2","8"," ","0",".","0",".","0",".","0",":","8","0","8","0"," ","0",".","0",".","0",".","0",":","*"," ","u","s","e","r","s",":","(","(","\"","n","o","d","e","\"",",","p","i","d","=","7",",","f","d","=","3",")",")","\n","L","I","S","T","E","N"," ","0"," ","1","2","8"," ","0",".","0",".","0",".","0",":","8","0","8","0"," ","0",".","0",".","0",".","0",":","*"," ","u","s","e","r","s",":","(","(","\"","b","u","n","\"",",","p","i","d","=","8",",","f","d","=","3",")",")","\n","L","I","S","T","E","N"," ","0"," ","1","2","8"," ","[",":",":","]",":","4","4","3"," ","[",":",":","]",":","*","\n">>, <<>>) }

\* The configuration runAudit resolves from the arguments and the
\* environment: complete, or with the user missing.
Configs == { [vpsUser |-> <<"d","e","p","l","o","y">>, vpsHost |-> <<"v","p","s","1">>],
             [vpsUser |-> <<>>,      vpsHost |-> <<"v","p","s","1">>] }

\* ------------------------------------------------------------------------
\* The answers each step can receive and the checks it makes of each.  The
\* checks of a step depend only on the answer (and the configuration), so
\* they are tabulated here once and the steps below look them up.
\* ------------------------------------------------------------------------

ConnectCases ==
    { [config |-> c, testResult |-> r, checks |-> connectivityChecks(r, c)]
        : c \in Configs, r \in {sshExec(o) : o \in ConnectOutcomes} }

SshCheckCases ==
    { [config |-> c, sshCheckResult |-> r, checks |-> sshHardeningChecks(r, c)]
        : c \in Configs, r \in {sshExec(o) : o \in SshCheckOutcomes} }

UfwCases ==
    { [ufwResult |-> r,
       checks    |-> firewallChecks(r),
       notice    |-> firewallNotice(r),
       hint      |-> firewallHint(r)] : r \in {sshExec(o) : o \in UfwOutcomes} }

UfwDiagnosticCases ==
    { <<sshExec(s), sshExec(e)>> : s \in UfwServiceOutcomes, e \in UfwEnabledOutcomes }

Fail2banCases ==
    { [fail2banResult |-> r, checks |-> fail2banChecks(r)]
        : r \in {sshExec(o) : o \in Fail2banOutcomes} }

UnattendedCases ==
    { [unattendedResult |-> r, checks |-> unattendedChecks(r)]
        : r \in {sshExec(o) : o \in UnattendedOutcomes} }

UpdateCases ==
    { [updateResult |-> r, checks |-> updatesChecks(r)]
        : r \in {sshExec(o) : o \in UpdateOutcomes} }

DockerCases ==
    { [config       |-> c,
       dockerResult |-> r,
       groupsResult |-> g,
       installed    |-> dockerInstalled(r),
       checks       |-> dockerChecks(r, g, c)]
        : c \in Configs,
          r \in {sshExec(o) : o \in DockerOutcomes},
          g \in {sshExec(o) : o \in GroupsOutcomes} }

TimezoneCases ==
    { [timezoneResult |-> r, checks |-> timezoneChecks(r)]
        : r \in {sshExec(o) : o \in TimezoneOutcomes} }

ListeningCases ==
    { [listeningResult |-> r, checks |-> listeningChecks(r)]
        : r \in {sshExec(o) : o \in ListeningOutcomes} }

\* ------------------------------------------------------------------------
\* runAudit as a state machine
\* ------------------------------------------------------------------------

VARIABLES
    pc,            \* where runAudit stands: the step it takes next
    config,        \* the resolved configuration
    results,       \* the AuditResults accumulator
    cmds,          \* the remote commands issued so far, in order
    printed,       \* the lines printed that report a check, a notice, a
                   \* hint, the summary or the verdict: <<level, message>>
    exitCode,      \* the code the process exited with, -1 while it runs
    probeResults   \* the SSHResults the step taken last received

auditVars == <<pc, config, results, cmds, printed, exitCode, probeResults>>

\* The listening services step taken line by line (parseListeningPorts and the
\* check made of its result).
VARIABLES
    listenLines,   \* the lines of the ss output: ssOutput.split("\n")
    listenAt,      \* how many of them the loop has been through
    listenAcc,     \* allPorts and exposedMap
    listenChecks   \* the check made of the exposed ports, once it is made

listeningVars == <<listenLines, listenAt, listenAcc, listenChecks>>

\* One call of sshExec.
VARIABLES
    execPc,        \* "called" until sshExec returns, then "returned"
    execOutcome,   \* what running the local ssh process comes to
    execResult     \* what sshExec returns

execVars == <<execPc, execOutcome, execResult>>

\* compose add (addService), on a remote host that keeps its files from one
\* invocation to the next.
VARIABLES
    addPc,           \* where addService stands: the command it awaits next
    addArgs,         \* projectName, serviceType, alias
    composeHome,     \* the remote home directory, once queried
    serviceConfig,   \* the descriptor of the service to add
    composeContent,  \* the document as fetched
    backupFile,      \* the path of the backup
    newContent,      \* the document as edited
    addCmds,         \* the remote commands of this invocation, in order, each
                     \* with the SSHResult it returned
    addPrinted,      \* the lines logged by this invocation: <<level, message>>
    addExit,         \* the exit code of this invocation, -1 while it runs
    invocations,     \* how many invocations there have been
    remoteDirs,      \* the directories of the remote host: a set of paths
    remoteFiles,     \* the files of the remote host: path to text
    clock            \* the local clock, in milliseconds

addLocals == <<composeHome, serviceConfig, composeContent, backupFile, newContent>>

remoteVars == <<remoteDirs, remoteFiles>>

composeVars == <<addPc, addArgs, addLocals, addCmds, addPrinted, addExit, invocations,
                 remoteVars, clock>>

\* One call of a function of the libraries that keeps no state: the
\* function, its arguments, and what it returns.
VARIABLES
    libPc,         \* "called" until the function returns, then "returned"
    libCall,       \* [fn, ...]: the function called and its arguments
    libResult      \* what it returned

libVars == <<libPc, libCall, libResult>>

\* getComposeHome called again and again in one process.
VARIABLES
    composeHomeCache,  \* the module variable: null, or the text cached
    homeCalls,         \* the calls made so far, in order: the host asked for,
                       \* whether the lookup command was issued, whether
                       \* the call threw, the value returned
    homeLookups        \* how many lookup commands were issued

homeVars == <<composeHomeCache, homeCalls, homeLookups>>

\* provision-remote.sh run on a host, once and then again.
VARIABLES
    provPc,        \* the section of the script that runs next
    provRuns,      \* how many runs were started
    provExit,      \* the exit code of the run, -1 while it runs
    userExists,    \* id "$USERNAME" succeeds
    rootKeys,      \* /root/.ssh/authorized_keys: "absent", "empty", "keys"
    userKeys,      \* /home/$USERNAME/.ssh/authorized_keys, likewise
    sudoers,       \* the lines of /etc/sudoers
    sshdConfig,    \* the lines of /etc/ssh/sshd_config
    sshBackup,     \* the lines of the backup the run made of it
    firewall,      \* "inactive" or "active"
    daemonJson,    \* /etc/docker/daemon.json: "absent", or its content
    jailLocal,     \* /etc/fail2ban/jail.local: "absent", or its content
    provTouched,   \* what the run wrote, restarted or enabled, in order
    provisioned    \* the files as the first run that went through left them

provisionVars == <<provPc, provRuns, provExit, userExists, rootKeys, userKeys, sudoers,
                   sshdConfig, sshBackup, firewall, daemonJson, jailLocal, provTouched,
                   provisioned>>

\* What is not runAudit's own state, and likewise for the other parts.
besideAudit == <<listeningVars, execVars, composeVars, libVars, homeVars, provisionVars>>

besideListening == <<auditVars, execVars, composeVars, libVars, homeVars, provisionVars>>

besideExec == <<auditVars, listeningVars, composeVars, libVars, homeVars, provisionVars>>

besideCompose == <<auditVars, listeningVars, execVars, libVars, homeVars, provisionVars>>

besideLib == <<auditVars, listeningVars, execVars, composeVars, homeVars, provisionVars>>

besideHome == <<auditVars, listeningVars, execVars, composeVars, libVars, provisionVars>>

besideProvision == <<auditVars, listeningVars, execVars, composeVars, libVars, homeVars>>

vars == <<auditVars, listeningVars, execVars, composeVars, libVars, homeVars, provisionVars>>

\* No run of runAudit is under way.
AuditIdle ==
    /\ pc = "idle"
    /\ config = [vpsUser |-> <<>>, vpsHost |-> <<>>]
    /\ results = NoResults
    /\ cmds = <<>>
    /\ printed = <<>>
    /\ exitCode = -1
    /\ probeResults = <<>>

\* The listening services step is not being followed line by line.
ListeningIdle ==
    /\ listenLines = <<>>
    /\ listenAt = 0
    /\ listenAcc = [allPorts |-> <<>>, exposedMap |-> <<>>]
    /\ listenChecks = <<>>

\* No call of sshExec is being followed.
ExecIdle ==
    /\ execPc = "idle"
    /\ execOutcome = SpawnError(<<>>)
    /\ execResult = sshExec(SpawnError(<<>>))

\* No invocation of compose add has been made, on a host without files.
ComposeIdle ==
    /\ addPc = "idle"
    /\ addArgs = [projectName |-> <<>>, serviceType |-> <<>>, alias |-> <<>>]
    /\ composeHome = <<>>
    /\ serviceConfig = <<>>
    /\ composeContent = <<>>
    /\ backupFile = <<>>
    /\ newContent = <<>>
    /\ addCmds = <<>>
    /\ addPrinted = <<>>
    /\ addExit = -1
    /\ invocations = 0
    /\ clock = 0
    /\ remoteDirs = {}
    /\ remoteFiles = <<>>

\* No function of the libraries is being followed.
LibIdle ==
    /\ libPc = "idle"
    /\ libCall = [fn |-> "none"]
    /\ libResult = <<>>

\* getComposeHome has not been called: the cache is null.
NoCache == [isNull |-> TRUE, text |-> <<>>]

HomeIdle ==
    /\ composeHomeCache = NoCache
    /\ homeCalls = <<>>
    /\ homeLookups = 0

\* The provisioning script is not run.
ProvisionIdle ==
    /\ provPc = "idle"
    /\ provRuns = 0
    /\ provExit = -1
    /\ userExists = FALSE
    /\ rootKeys = "absent"
    /\ userKeys = "absent"
    /\ sudoers = <<>>
    /\ sshdConfig = <<>>
    /\ sshBackup = <<>>
    /\ firewall = "inactive"
    /\ daemonJson = "absent"
    /\ jailLocal = "absent"
    /\ provTouched = <<>>
    /\ provisioned = <<>>

\* None of the three is under way.
OthersIdle == LibIdle /\ HomeIdle /\ ProvisionIdle

Init ==
    /\ pc = "start"
    /\ config \in Configs
    /\ results = NoResults
    /\ cmds = <<>>
    /\ printed = <<>>
    /\ exitCode = -1
    /\ probeResults = <<>>
    /\ ListeningIdle
    /\ ExecIdle
    /\ ComposeIdle
    /\ OthersIdle

\* if (!config.vpsUser || !config.vpsHost) { log.error(...); process.exit(1) }
CheckConfig ==
    /\ pc = "start"
    /\ IF config.vpsUser = <<>> \/ config.vpsHost = <<>>
       THEN /\ printed' = Append(printed, <<"ERROR", Msg("SSH user and host are required.", <<>>)>>)
            /\ exitCode' = 1
            /\ pc' = "exited"
       ELSE /\ pc' = "connectivity"
            /\ UNCHANGED <<printed, exitCode>>
    /\ UNCHANGED <<config, results, cmds, probeResults>>
    /\ UNCHANGED besideAudit

\* A connectivity step without the process.exit(1) of its failure branch.
ConnectivityNotFatal ==
    /\ pc = "connectivity"
    /\ \E case \in ConnectCases :
          /\ case.config = config
          /\ cmds' = Append(cmds, "echo OK")
          /\ probeResults' = <<case.testResult>>
          /\ results' = recordChecks(results, case.checks)
          /\ printed' = printed \o checkLines(case.checks)
    /\ pc' = "sshHardening"
    /\ UNCHANGED <<config, exitCode>>
    /\ UNCHANGED besideAudit

\* SSH connectivity: fatal when it fails.
Connectivity ==
    /\ pc = "connectivity"
    /\ \E case \in ConnectCases :
          /\ case.config = config
          /\ cmds' = Append(cmds, "echo OK")
          /\ probeResults' = <<case.testResult>>
          /\ results' = recordChecks(results, case.checks)
          /\ printed' = printed \o checkLines(case.checks)
          /\ IF case.testResult.success
             THEN pc' = "sshHardening" /\ UNCHANGED exitCode
             ELSE pc' = "exited" /\ exitCode' = 1
    /\ UNCHANGED config
    /\ UNCHANGED besideAudit

\* An SSH hardening step that exits when the snapshot cannot be retrieved.
SshHardeningFatal ==
    /\ pc = "sshHardening"
    /\ \E case \in SshCheckCases :
          /\ case.config = config
          /\ cmds' = Append(cmds, "sshCheckScript")
          /\ probeResults' = <<case.sshCheckResult>>
          /\ results' = recordChecks(results, case.checks)
          /\ printed' = printed \o checkLines(case.checks)
          /\ IF case.sshCheckResult.success
             THEN pc' = "firewall" /\ UNCHANGED exitCode
             ELSE pc' = "exited" /\ exitCode' = 1
    /\ UNCHANGED config
    /\ UNCHANGED besideAudit

SshHardening ==
    /\ pc = "sshHardening"
    /\ \E case \in SshCheckCases :
          /\ case.config = config
          /\ cmds' = Append(cmds, "sshCheckScript")
          /\ probeResults' = <<case.sshCheckResult>>
          /\ results' = recordChecks(results, case.checks)
          /\ printed' = printed \o checkLines(case.checks)
    /\ pc' = "firewall"
    /\ UNCHANGED <<config, exitCode>>
    /\ UNCHANGED besideAudit

\* Firewall: the status query, then two diagnostic queries whose answers are
\* only printed.
Firewall ==
    /\ pc = "firewall"
    /\ \E case \in UfwCases, diag \in UfwDiagnosticCases :
          /\ cmds' = cmds \o <<"sudo ufw status verbose",
                               "systemctl is-active ufw",
                               "systemctl is-enabled ufw">>
          /\ probeResults' = <<case.ufwResult>> \o diag
          /\ results' = recordChecks(results, case.checks)
          /\ printed' = printed \o case.notice \o checkLines(case.checks) \o case.hint
    /\ pc' = "fail2ban"
    /\ UNCHANGED <<config, exitCode>>
    /\ UNCHANGED besideAudit

Fail2ban ==
    /\ pc = "fail2ban"
    /\ \E case \in Fail2banCases :
          /\ cmds' = Append(cmds, "fail2banScript")
          /\ probeResults' = <<case.fail2banResult>>
          /\ results' = recordChecks(results, case.checks)
          /\ printed' = printed \o checkLines(case.checks)
    /\ pc' = "unattended"
    /\ UNCHANGED <<config, exitCode>>
    /\ UNCHANGED besideAudit

Unattended ==
    /\ pc = "unattended"
    /\ \E case \in UnattendedCases :
          /\ cmds' = Append(cmds, "unattendedScript")
          /\ probeResults' = <<case.unattendedResult>>
          /\ results' = recordChecks(results, case.checks)
          /\ printed' = printed \o checkLines(case.checks)
    /\ pc' = "updates"
    /\ UNCHANGED <<config, exitCode>>
    /\ UNCHANGED besideAudit

Updates ==
    /\ pc = "updates"
    /\ \E case \in UpdateCases :
          /\ cmds' = Append(cmds, "apt list --upgradable")
          /\ probeResults' = <<case.updateResult>>
          /\ results' = recordChecks(results, case.checks)
          /\ printed' = printed \o checkLines(case.checks)
    /\ pc' = "docker"
    /\ UNCHANGED <<config, exitCode>>
    /\ UNCHANGED besideAudit

\* Docker: the groups query is made only inside the installed branch.
Docker ==
    /\ pc = "docker"
    /\ \E case \in DockerCases :
          /\ case.config = config
          /\ cmds' = cmds \o <<"dockerScript">>
                          \o (IF case.installed THEN <<"groups">> ELSE <<>>)
          /\ probeResults' = <<case.dockerResult>>
                             \o (IF case.installed THEN <<case.groupsResult>> ELSE <<>>)
          /\ results' = recordChecks(results, case.checks)
          /\ printed' = printed \o checkLines(case.checks)
    /\ pc' = "timezone"
    /\ UNCHANGED <<config, exitCode>>
    /\ UNCHANGED besideAudit

Timezone ==
    /\ pc = "timezone"
    /\ \E case \in TimezoneCases :
          /\ cmds' = Append(cmds, "timezoneScript")
          /\ probeResults' = <<case.timezoneResult>>
          /\ results' = recordChecks(results, case.checks)
          /\ printed' = printed \o checkLines(case.checks)
    /\ pc' = "listening"
    /\ UNCHANGED <<config, exitCode>>
    /\ UNCHANGED besideAudit

Listening ==
    /\ pc = "listening"
    /\ \E case \in ListeningCases :
          /\ cmds' = Append(cmds, "sudo ss -tlnpen")
          /\ probeResults' = <<case.listeningResult>>
          /\ results' = recordChecks(results, case.checks)
          /\ printed' = printed \o checkLines(case.checks)
    /\ pc' = "summary"
    /\ UNCHANGED <<config, exitCode>>
    /\ UNCHANGED besideAudit

\* The summary: the tally and the three lists.
Summary ==
    /\ pc = "summary"
    /\ printed' = printed \o summaryLines(results)
    /\ probeResults' = <<>>
    /\ pc' = "verdict"
    /\ UNCHANGED <<config, results, cmds, exitCode>>
    /\ UNCHANGED besideAudit

\* The final verdict: one message, then process.exit.
Verdict ==
    /\ pc = "verdict"
    /\ printed' = Append(printed, <<verdictOf(results).level, Msg(verdictOf(results).text, <<>>)>>)
    /\ exitCode' = verdictOf(results).exitCode
    /\ pc' = "exited"
    /\ UNCHANGED <<config, results, cmds, probeResults>>
    /\ UNCHANGED besideAudit

Next ==
    \/ CheckConfig
    \/ Connectivity
    \/ SshHardening
    \/ Firewall
    \/ Fail2ban
    \/ Unattended
    \/ Updates
    \/ Docker
    \/ Timezone
    \/ Listening
    \/ Summary
    \/ Verdict

Spec == Init /\ [][Next]_vars

\* runAudit runs to completion: every step is a call that returns, so an
\* enabled step is eventually taken.
FairSpec == Spec /\ WF_vars(Next)


\* ------------------------------------------------------------------------
\* The listening services step, line by line: parseListeningPorts run on the
\* lines of an ss listing, one iteration of its loop per step, then the check
\* runAudit makes of the exposed ports it returns.
\* ------------------------------------------------------------------------

\* The largest number of lines of a listing.
MaxListenLines == 3

\* Lines of `ss -tlnpen` listings: the header, sockets bound to all
\* interfaces (IPv4, IPv6, wildcard), to the loopback addresses, to one
\* address, and to an address with an interface suffix.
ListenLines ==
    { <<"S","t","a","t","e"," ","R","e","c","v","-","Q"," ","S","e","n","d","-","Q"," ","L","o","c","a","l"," ","A","d","d","r","e","s","s",":","P","o","r","t"," ","P","e","e","r"," ","A","d","d","r","e","s","s",":","P","o","r","t"," ","P","r","o","c","e","s","s">>,
      <<"L","I","S","T","E","N"," ","0"," ","1","2","8"," ","0",".","0",".","0",".","0",":","2","2"," ","0",".","0",".","0",".","0",":","*"," ","u","s","e","r","s",":","(","(","\"","s","s","h","d","\"",",","p","i","d","=","1",",","f","d","=","3",")",")">>,
      <<"L","I","S","T","E","N"," ","0"," ","5","1","1"," ","0",".","0",".","0",".","0",":","8","0"," ","0",".","0",".","0",".","0",":","*"," ","u","s","e","r","s",":","(","(","\"","n","g","i","n","x","\"",",","p","i","d","=","5",",","f","d","=","6",")",")">>,
      <<"L","I","S","T","E","N"," ","0"," ","5","1","1"," ","[",":",":","]",":","8","0"," ","[",":",":","]",":","*"," ","u","s","e","r","s",":","(","(","\"","n","o","d","e","\"",",","p","i","d","=","7",",","f","d","=","3",")",")">>,
      <<"t","c","p"," ","L","I","S","T","E","N"," ","0"," ","1","2","8"," ","*",":","8","0","8","0"," ","*",":","*">>,
      <<"L","I","S","T","E","N"," ","0"," ","8","0"," ","1","2","7",".","0",".","0",".","1",":","5","4","3","2"," ","0",".","0",".","0",".","0",":","*"," ","u","s","e","r","s",":","(","(","\"","p","o","s","t","g","r","e","s","\"",",","p","i","d","=","9",",","f","d","=","5",")",")">>,
      <<"L","I","S","T","E","N"," ","0"," ","1","2","8"," ","[",":",":","1","]",":","8","0","8","0"," ","[",":",":","]",":","*">>,
      <<"L","I","S","T","E","N"," ","0"," ","1","2","8"," ","1","0",".","0",".","0",".","5",":","9","0","0","0"," ","0",".","0",".","0",".","0",":","*">>,
      <<"L","I","S","T","E","N"," ","0"," ","4","0","9","6"," ","1","2","7",".","0",".","0",".","5","3","%","l","o",":","5","3"," ","0",".","0",".","0",".","0",":","*">> }

\* The listings: every sequence of at most MaxListenLines of the lines.
Listings ==
    UNION { [1..n -> ListenLines] : n \in 0..MaxListenLines }

\* parseListeningPorts is entered with the lines of a listing.
ListeningInit ==
    /\ AuditIdle
    /\ ExecIdle
    /\ ComposeIdle
    /\ OthersIdle
    /\ listenLines \in Listings
    /\ listenAt = 0
    /\ listenAcc = [allPorts |-> <<>>, exposedMap |-> <<>>]
    /\ listenChecks = <<>>

\* One iteration of `for (const line of lines)`.
ParseLine ==
    /\ listenChecks = <<>>
    /\ listenAt < Len(listenLines)
    /\ listenAcc' = parseListeningLine(listenAcc, listenLines[listenAt + 1])
    /\ listenAt' = listenAt + 1
    /\ UNCHANGED <<listenLines, listenChecks>>
    /\ UNCHANGED besideListening

\* The loop is over: parseListeningPorts returns and runAudit makes its check
\* of the exposed ports.
ReportExposed ==
    /\ listenChecks = <<>>
    /\ listenAt = Len(listenLines)
    /\ listenChecks' = listeningReport(join(listenLines, "\n"),
                                       portsOf(listenAcc).exposedPorts)
    /\ UNCHANGED <<listenLines, listenAt, listenAcc>>
    /\ UNCHANGED besideListening

ListeningNext ==
    \/ ParseLine
    \/ ReportExposed

ListeningSpec == ListeningInit /\ [][ListeningNext]_vars

\* ------------------------------------------------------------------------
\* One call of sshExec: the local ssh process comes to an outcome and sshExec
\* makes its result of it
\* ------------------------------------------------------------------------

\* What the ssh process can come to: it exits with a code, having written
\* some text to stdout and to stderr, or it cannot be spawned.
ProcessOutcomes ==
    { Exited(code, out, err) :
        code \in {0, 1, 2, 127, 255},
        out  \in { <<>>, <<"O","K","\n">>, <<" "," ","/","h","o","m","e","/","d","e","p","l","o","y"," ","\n">>, <<"W","e","l","c","o","m","e","\n","\n","P","E","R","M","I","T","_","R","O","O","T","=","n","o","\n">> },
        err  \in { <<>>, <<"W","a","r","n","i","n","g",":"," ","P","e","r","m","a","n","e","n","t","l","y"," ","a","d","d","e","d"," ","'","v","p","s","1","'"," ","t","o"," ","t","h","e"," ","l","i","s","t"," ","o","f"," ","k","n","o","w","n"," ","h","o","s","t","s",".","\n">>,
                   <<"P","e","r","m","i","s","s","i","o","n"," ","d","e","n","i","e","d"," ","(","p","u","b","l","i","c","k","e","y",")",".">> } }
    \cup { SpawnError(<<"E","x","e","c","u","t","a","b","l","e"," ","n","o","t"," ","f","o","u","n","d"," ","i","n"," ","$","P","A","T","H",":"," ","\"","s","s","h","\"">>),
           SpawnError(<<"E","N","O","M","E","M",":"," ","n","o","t"," ","e","n","o","u","g","h"," ","m","e","m","o","r","y">>) }

ExecInit ==
    /\ AuditIdle
    /\ ListeningIdle
    /\ ComposeIdle
    /\ OthersIdle
    /\ execPc = "called"
    /\ execOutcome \in ProcessOutcomes
    /\ execResult = sshExec(SpawnError(<<>>))

\* sshExec returns.
ReturnResult ==
    /\ execPc = "called"
    /\ execResult' = sshExec(execOutcome)
    /\ execPc' = "returned"
    /\ UNCHANGED execOutcome
    /\ UNCHANGED besideExec

ExecNext == ReturnResult

ExecSpec == ExecInit /\ [][ExecNext]_vars

\* ------------------------------------------------------------------------
\* compose add: the service descriptors and the edit of the document
\* (commands/compose)
\* ------------------------------------------------------------------------

\* getBunService: the descriptor of a Bun service, one text of several lines.
getBunService(alias, appDir, uid, gid) ==
    <<" "," ">> \o alias \o <<":","\n">>
      \o <<" "," "," "," ","i","m","a","g","e",":"," ","o","v","e","n","/","b","u","n",":","l","a","t","e","s","t","\n">>
      \o <<" "," "," "," ","c","o","n","t","a","i","n","e","r","_","n","a","m","e",":"," ">> \o alias \o <<"\n">>
      \o <<" "," "," "," ","u","s","e","r",":"," ","\"">> \o uid \o <<":">> \o gid \o <<"\"","\n">>
      \o <<" "," "," "," ","w","o","r","k","i","n","g","_","d","i","r",":"," ","/","a","p","p","\n">>
      \o <<" "," "," "," ","v","o","l","u","m","e","s",":","\n">>
      \o <<" "," "," "," "," "," ","-"," ">> \o appDir \o <<":","/","a","p","p","\n">>
      \o <<" "," "," "," "," "," ","-"," ">> \o alias \o <<"_","n","o","d","e","_","m","o","d","u","l","e","s",":","/","a","p","p","/","n","o","d","e","_","m","o","d","u","l","e","s","\n">>
      \o <<" "," "," "," ","c","o","m","m","a","n","d",":"," ","b","u","n"," ","r","u","n"," ","-","-","w","a","t","c","h"," ","s","r","c","/","i","n","d","e","x",".","t","s","\n">>
      \o <<" "," "," "," ","n","e","t","w","o","r","k","s",":","\n">>
      \o <<" "," "," "," "," "," ","-"," ","d","e","f","a","u","l","t","\n">>
      \o <<" "," "," "," ","r","e","s","t","a","r","t",":"," ","u","n","l","e","s","s","-","s","t","o","p","p","e","d","\n">>
      \o <<" "," "," "," ","e","n","v","i","r","o","n","m","e","n","t",":","\n">>
      \o <<" "," "," "," "," "," ","-"," ","N","O","D","E","_","E","N","V","=","d","e","v","e","l","o","p","m","e","n","t">>

\* getMysqlService: the descriptor of a MySQL service.
getMysqlService(alias) ==
    <<" "," ">> \o alias \o <<":","\n">>
      \o <<" "," "," "," ","i","m","a","g","e",":"," ","m","y","s","q","l",":","8",".","0","\n">>
      \o <<" "," "," "," ","c","o","n","t","a","i","n","e","r","_","n","a","m","e",":"," ">> \o alias \o <<"\n">>
      \o <<" "," "," "," ","e","n","v","i","r","o","n","m","e","n","t",":","\n">>
      \o <<" "," "," "," "," "," ","M","Y","S","Q","L","_","R","O","O","T","_","P","A","S","S","W","O","R","D",":"," ","r","o","o","t","_","p","a","s","s","w","o","r","d","_","c","h","a","n","g","e","_","m","e","\n">>
      \o <<" "," "," "," "," "," ","M","Y","S","Q","L","_","D","A","T","A","B","A","S","E",":"," ">> \o alias \o <<"_","d","b","\n">>
      \o <<" "," "," "," "," "," ","M","Y","S","Q","L","_","U","S","E","R",":"," ">> \o alias \o <<"_","u","s","e","r","\n">>
      \o <<" "," "," "," "," "," ","M","Y","S","Q","L","_","P","A","S","S","W","O","R","D",":"," ","u","s","e","r","_","p","a","s","s","w","o","r","d","_","c","h","a","n","g","e","_","m","e","\n">>
      \o <<" "," "," "," ","v","o","l","u","m","e","s",":","\n">>
      \o <<" "," "," "," "," "," ","-"," ">> \o alias \o <<"_","d","a","t","a",":","/","v","a","r","/","l","i","b","/","m","y","s","q","l","\n">>
      \o <<" "," "," "," ","n","e","t","w","o","r","k","s",":","\n">>
      \o <<" "," "," "," "," "," ","-"," ","d","e","f","a","u","l","t","\n">>
      \o <<" "," "," "," ","r","e","s","t","a","r","t",":"," ","u","n","l","e","s","s","-","s","t","o","p","p","e","d","\n">>
      \o <<" "," "," "," ","p","o","r","t","s",":","\n">>
      \o <<" "," "," "," "," "," ","-"," ","\"","1","2","7",".","0",".","0",".","1",":","3","3","0","6",":","3","3","0","6","\"","\n">>
      \o <<" "," "," "," ","h","e","a","l","t","h","c","h","e","c","k",":","\n">>
      \o <<" "," "," "," "," "," ","t","e","s","t",":"," ","[","\"","C","M","D","\"",","," ","\"","m","y","s","q","l","a","d","m","i","n","\"",","," ","\"","p","i","n","g","\"",","," ","\"","-","h","\"",","," ","\"","l","o","c","a","l","h","o","s","t","\"","]","\n">>
      \o <<" "," "," "," "," "," ","i","n","t","e","r","v","a","l",":"," ","1","0","s","\n">>
      \o <<" "," "," "," "," "," ","t","i","m","e","o","u","t",":"," ","5","s","\n">>
      \o <<" "," "," "," "," "," ","r","e","t","r","i","e","s",":"," ","5">>

\* array.splice(index, 0, ...items), index 0-based.
splice(array, index, items) ==
    SubSeq(array, 1, index) \o items \o SubSeq(array, index + 1, Len(array))

\* array.findIndex((l) => l.trim() === text): 0-based, -1 when there is none.
findTrimmed(array, text) ==
    LET at == {k \in 1..Len(array) : trim(array[k]) = text}
    IN  IF at = {} THEN -1 ELSE MinOf(at) - 1

\* array.some((l) => l.trim() === text)
someTrimmed(array, text) == \E k \in 1..Len(array) : trim(array[k]) = text

\* line.length - line.trimStart().length
lineIndentOf(line) == Len(line) - Len(trimStart(line))

\* The loop of addService over the lines of the document, from the second
\* test of an iteration on.  scan holds newLines, inServices, servicesEnded
\* and lastServiceEndIndex.

\* A top-level key met inside the services section ends it: the descriptor
\* goes in before the key, once.
leaveServices(scan, trimmed, lineIndent, descriptor) ==
    IF scan.inServices /\ lineIndent = 0 /\ trimmed # <<>> /\ ~startsWith(trimmed, <<"#">>)
    THEN [scan EXCEPT
            !.newLines      = IF scan.servicesEnded THEN @ ELSE @ \o <<descriptor, <<>> >>,
            !.servicesEnded = TRUE,
            !.inServices    = FALSE]
    ELSE scan

\* if (inServices && trimmed && lineIndent === 0 && !servicesEnded)
\*   lastServiceEndIndex = i
trackLastService(scan, trimmed, lineIndent, i) ==
    IF scan.inServices /\ trimmed # <<>> /\ lineIndent = 0 /\ ~scan.servicesEnded
    THEN [scan EXCEPT !.lastServiceEndIndex = i]
    ELSE scan

\* newLines.push(line)
pushLine(scan, line) == [scan EXCEPT !.newLines = Append(@, line)]

\* One iteration of the loop, i being the 0-based index of line.
scanLine(scan, line, i, descriptor) ==
    IF trim(line) = <<"s","e","r","v","i","c","e","s",":">>
    THEN pushLine([scan EXCEPT !.inServices = TRUE], line)
    ELSE pushLine(trackLastService(leaveServices(scan, trim(line), lineIndentOf(line),
                                                 descriptor),
                                   trim(line), lineIndentOf(line), i),
                  line)

\* The loop over all the lines.
scanLines(lines, descriptor) ==
    LET after[n \in 0..Len(lines)] ==
            IF n = 0
            THEN [newLines |-> <<>>, inServices |-> FALSE, servicesEnded |-> FALSE,
                  lastServiceEndIndex |-> -1]
            ELSE scanLine(after[n - 1], lines[n], n - 1, descriptor)
    IN  after[Len(lines)]

\* The index past the blank lines and the comments that follow position from.
skipBlankAndComments(array, from) ==
    LET stop == {k \in from..(Len(array) - 1) :
                    ~(trim(array[k + 1]) = <<>> \/ startsWith(trim(array[k + 1]), <<"#">>))}
    IN  IF stop = {} THEN IF from > Len(array) THEN from ELSE Len(array) ELSE MinOf(stop)

\* After the loop: when no top-level key ended the services section, the
\* descriptor goes after the last line tracked, or after the services: line
\* and the blank lines and comments under it; without a services: line it
\* goes nowhere.
placeService(scan, servicesIndex, descriptor) ==
    IF scan.servicesEnded THEN scan.newLines
    ELSE IF scan.lastServiceEndIndex # -1
    THEN splice(scan.newLines, scan.lastServiceEndIndex + 1, <<descriptor, <<>> >>)
    ELSE IF servicesIndex # -1
    THEN splice(scan.newLines, skipBlankAndComments(scan.newLines, servicesIndex + 1),
                <<descriptor, <<>> >>)
    ELSE scan.newLines

\* The lines of the document with the descriptor put in.
insertService(lines, descriptor) ==
    placeService(scanLines(lines, descriptor),
                 findTrimmed(scanLines(lines, descriptor).newLines, <<"s","e","r","v","i","c","e","s",":">>),
                 descriptor)

\* The rest of ensureVolumeInCompose once the three searches are made.
placeVolume(newLines, formattedVolumeName, hasVolumes, hasVolume, networksIndex, volumesIndex) ==
    IF ~hasVolumes
    THEN IF networksIndex # -1
         THEN splice(newLines, networksIndex, << <<>>, <<"v","o","l","u","m","e","s",":">>, formattedVolumeName >>)
         ELSE newLines \o << <<>>, <<"v","o","l","u","m","e","s",":">>, formattedVolumeName >>
    ELSE IF ~hasVolume
    THEN IF volumesIndex # -1
         THEN splice(newLines, volumesIndex + 1, <<formattedVolumeName>>)
         ELSE newLines
    ELSE newLines

\* ensureVolumeInCompose(newLines, volumeName): the lines it leaves.
ensureVolumeInCompose(newLines, volumeName) ==
    placeVolume(newLines,
                <<" "," ">> \o volumeName \o <<":">>,
                someTrimmed(newLines, <<"v","o","l","u","m","e","s",":">>),
                someTrimmed(newLines, <<" "," ">> \o volumeName \o <<":">>),
                findTrimmed(newLines, <<"n","e","t","w","o","r","k","s",":">>),
                findTrimmed(newLines, <<"v","o","l","u","m","e","s",":">>))

\* The volume a service of a type brings: none for a type out of the catalog.
volumeOf(serviceTypeLower, alias) ==
    IF serviceTypeLower = <<"m","y","s","q","l">> THEN alias \o <<"_","d","a","t","a">>
    ELSE IF serviceTypeLower = <<"b","u","n">> THEN alias \o <<"_","n","o","d","e","_","m","o","d","u","l","e","s">>
    ELSE <<>>

\* The edit of addService, from composeContent to newContent.
editDocument(content, serviceTypeLower, alias, descriptor) ==
    IF volumeOf(serviceTypeLower, alias) # <<>>
    THEN join(ensureVolumeInCompose(insertService(split(content, "\n"), descriptor),
                                    volumeOf(serviceTypeLower, alias)), "\n")
    ELSE join(insertService(split(content, "\n"), descriptor), "\n")

\* ------------------------------------------------------------------------
\* compose add: the remote host
\* ------------------------------------------------------------------------

\* The most invocations of compose add that follow one another.
MaxInvocations == 2

\* $HOME of the user on the remote host.
RemoteHome == <<"/","h","o","m","e","/","d","e","p","l","o","y">>

projectDirOf(homeDir, projectName) == homeDir \o <<"/">> \o projectName

composeFileOf(projectDir) == projectDir \o <<"/","d","o","c","k","e","r","-","c","o","m","p","o","s","e",".","y","m","l">>

appDirOf(homeDir, projectName, alias) ==
    homeDir \o <<"/">> \o projectName \o <<"/","a","p","p","s","/">> \o alias

\* The document initProject uploads for a project.
initialDocument(projectName) ==
    <<"s","e","r","v","i","c","e","s",":","\n"," "," ","#"," ","A","d","d"," ","y","o","u","r"," ","s","e","r","v","i","c","e","s"," ","h","e","r","e"," ","u","s","i","n","g",":"," ","b","i","n","/","c","o","m","p","o","s","e"," ","a","d","d"," ">> \o projectName
      \o <<" ","<","t","y","p","e",">"," ","<","a","l","i","a","s",">","\n","\n","n","e","t","w","o","r","k","s",":","\n"," "," ","d","e","f","a","u","l","t",":","\n"," "," "," "," ","n","a","m","e",":"," ">> \o projectName
      \o <<"_","n","e","t","w","o","r","k","\n">>

\* A document with a service that mounts a named volume.
DocumentWithVolumes ==
    <<"s","e","r","v","i","c","e","s",":","\n"," "," ","w","e","b",":","\n"," "," "," "," ","i","m","a","g","e",":"," ","n","g","i","n","x",":","a","l","p","i","n","e","\n"," "," "," "," ","v","o","l","u","m","e","s",":","\n"," "," "," "," "," "," ","-"," ","w","e","b","_","d","a","t","a",":","/","u","s","r","/","s","h","a","r","e","/","n","g","i","n","x","/","h","t","m","l","\n","\n","v","o","l","u","m","e","s",":","\n"," "," ","w","e","b","_","d","a","t","a",":","\n","\n","n","e","t","w","o","r","k","s",":","\n"," "," ","d","e","f","a","u","l","t",":","\n"," "," "," "," ","n","a","m","e",":"," ","p","m","e","_","n","e","t","w","o","r","k","\n">>

\* A document without a services key.
DocumentWithoutServices ==
    <<"v","e","r","s","i","o","n",":"," ","\"","3","\"","\n","\n","n","e","t","w","o","r","k","s",":","\n"," "," ","d","e","f","a","u","l","t",":","\n"," "," "," "," ","n","a","m","e",":"," ","p","m","e","_","n","e","t","w","o","r","k","\n">>

\* The file systems the remote host can start with: the project pme with one
\* of three documents; the project blog without its directory, or with the
\* directory and no document in it.
RemoteFileSystems ==
    { [dirs  |-> {projectDirOf(RemoteHome, <<"p","m","e">>)} \cup b,
       files |-> composeFileOf(projectDirOf(RemoteHome, <<"p","m","e">>)) :> d]
        : d \in {initialDocument(<<"p","m","e">>), DocumentWithVolumes, DocumentWithoutServices},
          b \in {{}, {projectDirOf(RemoteHome, <<"b","l","o","g">>)}} }

\* The arguments of compose add.
ProjectNames == { <<"p","m","e">>, <<"b","l","o","g">> }

ServiceTypes == { <<"b","u","n">>, <<"M","y","S","Q","L">>, <<"r","e","d","i","s">> }

AliasNames == { <<"a","p","p">>, <<"d","b">>, <<>> }

\* The ssh connection fails: sshExec gets exit code 255 and no output.
ConnectionFailed == Exited(255, <<>>, <<"s","s","h",":"," ","c","o","n","n","e","c","t"," ","t","o"," ","h","o","s","t"," ","v","p","s","1"," ","p","o","r","t"," ","2","2",":"," ","C","o","n","n","e","c","t","i","o","n"," ","t","i","m","e","d"," ","o","u","t">>)

\* How a remote command can go: answered by the host, or not.
Reached == {TRUE, FALSE}

\* A command that only succeeds or fails, answered by the host or not.
ranTest(reached, holds) ==
    IF ~reached THEN sshExec(ConnectionFailed)
    ELSE IF holds THEN sshExec(Exited(0, <<>>, <<>>))
    ELSE sshExec(Exited(1, <<>>, <<>>))

\* A command that prints a text, answered by the host or not.
ranPrint(reached, text) ==
    IF reached THEN sshExec(Exited(0, text \o <<"\n">>, <<>>)) ELSE sshExec(ConnectionFailed)

\* grep -q "^  <alias>:" on the text of a file: whether a line starts with
\* two spaces, the alias and a colon (the aliases hold no pattern characters).
grepServiceKey(text, alias) ==
    LET lines == split(text, "\n")
    IN  \E k \in 1..Len(lines) : startsWith(lines[k], <<" "," ">> \o alias \o <<":">>)

\* The files after a file is written.
writeFile(files, path, text) ==
    [p \in DOMAIN files \cup {path} |-> IF p = path THEN text ELSE files[p]]

\* new Date().toISOString().replace(/[:.]/g, "-").slice(0, -5): the time to
\* the second, the milliseconds cut off.  The clock counts milliseconds.
timestampOf(clockMs) == numberToString(clockMs \div 1000)

backupFileOf(timestamp) == <<"/","t","m","p","/","d","o","c","k","e","r","-","c","o","m","p","o","s","e",".","b","a","c","k","u","p",".">> \o timestamp \o <<".","y","m","l">>

\* The time that passes between two readings of the clock, in milliseconds.
ClockAdvances == {400, 1000}

\* The service type of the catalog a type argument names, "unknown" for none.
\* A mutation of it below takes every type out of the catalog for mysql.
serviceKindLenient(serviceType) ==
    IF toLowerCase(serviceType) = <<"b","u","n">> THEN "bun" ELSE "mysql"

serviceKind(serviceType) ==
    IF toLowerCase(serviceType) = <<"b","u","n">> THEN "bun"
    ELSE IF toLowerCase(serviceType) = <<"m","y","s","q","l">> THEN "mysql"
    ELSE "unknown"

\* ------------------------------------------------------------------------
\* compose add as a state machine: addService, one step per remote command
\* awaited, on a remote host that keeps its files from one invocation to the
\* next
\* ------------------------------------------------------------------------

\* No invocation has been made yet; the remote host has one of its file
\* systems.
ComposeInit ==
    /\ AuditIdle
    /\ ListeningIdle
    /\ ExecIdle
    /\ OthersIdle
    /\ addPc = "idle"
    /\ addArgs = [projectName |-> <<>>, serviceType |-> <<>>, alias |-> <<>>]
    /\ composeHome = <<>>
    /\ serviceConfig = <<>>
    /\ composeContent = <<>>
    /\ backupFile = <<>>
    /\ newContent = <<>>
    /\ addCmds = <<>>
    /\ addPrinted = <<>>
    /\ addExit = -1
    /\ invocations = 0
    /\ clock = 0
    /\ \E fs \in RemoteFileSystems : remoteDirs = fs.dirs /\ remoteFiles = fs.files

\* The paths of the invocation under way.
projectDir == projectDirOf(composeHome, addArgs.projectName)

composeFile == composeFileOf(projectDir)

appDir == appDirOf(composeHome, addArgs.projectName, addArgs.alias)

\* A remote command and the result it returned.
Ran(command, path, result) == [run |-> command, path |-> path, result |-> result]

\* process.exit(1) after the lines logged.
ExitOne(lines) ==
    /\ addPrinted' = addPrinted \o lines
    /\ addExit' = 1
    /\ addPc' = "exited"

\* sshExecStdout threw: compose() catches, logs and exits.
CommandFailed(result) ==
    ExitOne(<< <<"ERROR", Msg("Command failed: ${error.message}", <<"S","S","H"," ","c","o","m","m","a","n","d"," ","f","a","i","l","e","d",":"," ">> \o result.stderr)>> >>)

\* A new invocation: the arguments are given and checked, up to the first
\* remote command.
Invoke ==
    /\ addPc \in {"idle", "exited"}
    /\ invocations < MaxInvocations
    /\ invocations' = invocations + 1
    /\ \E p \in ProjectNames, t \in ServiceTypes, a \in AliasNames :
          addArgs' = [projectName |-> p, serviceType |-> t, alias |-> a]
    /\ composeHome' = <<>>
    /\ serviceConfig' = <<>>
    /\ composeContent' = <<>>
    /\ backupFile' = <<>>
    /\ newContent' = <<>>
    /\ addCmds' = <<>>
    /\ IF addArgs'.projectName = <<>> \/ addArgs'.serviceType = <<>> \/ addArgs'.alias = <<>>
       THEN /\ addPrinted' = << <<"ERROR", Msg("Project name, service type, and alias are required", <<>>)>>,
                                <<"RAW", Msg("Usage: bin/compose <command> [arguments]", <<>>)>> >>
            /\ addExit' = 1
            /\ addPc' = "exited"
       ELSE /\ addPrinted' = <<>>
            /\ addExit' = -1
            /\ addPc' = "composeHome"
    /\ UNCHANGED <<remoteVars, clock>>
    /\ UNCHANGED besideCompose

\* getComposeHome: echo $HOME, through sshExecStdout.
GetComposeHome ==
    /\ addPc = "composeHome"
    /\ \E reached \in Reached :
          LET result == ranPrint(reached, RemoteHome)
          IN  /\ addCmds' = Append(addCmds, Ran("echo $HOME", <<>>, result))
              /\ IF result.success
                 THEN /\ composeHome' = filterMOTDFromOutput(result.stdout, <<>>)
                      /\ addPc' = "dirExists"
                      /\ UNCHANGED <<addPrinted, addExit>>
                 ELSE /\ CommandFailed(result)
                      /\ UNCHANGED composeHome
    /\ UNCHANGED <<addArgs, serviceConfig, composeContent, backupFile, newContent,
                   invocations, remoteVars, clock>>
    /\ UNCHANGED besideCompose

\* [ -d projectDir ]: the project must exist.
CheckProjectDir ==
    /\ addPc = "dirExists"
    /\ \E reached \in Reached :
          LET dirExists == ranTest(reached, projectDir \in remoteDirs)
          IN  /\ addCmds' = Append(addCmds, Ran("test -d", projectDir, dirExists))
              /\ IF ~dirExists.success
                 THEN ExitOne(<< <<"ERROR", Msg("Project directory does not exist on VPS: ${projectDir}", projectDir)>>,
                                 <<"INFO", Msg("Initialize it first with: bin/compose init ${projectName}", addArgs.projectName)>> >>)
                 ELSE /\ addPc' = "fileExists"
                      /\ UNCHANGED <<addPrinted, addExit>>
    /\ UNCHANGED <<addArgs, addLocals, invocations, remoteVars, clock>>
    /\ UNCHANGED besideCompose

\* [ -f composeFile ]: the document must exist.
CheckComposeFile ==
    /\ addPc = "fileExists"
    /\ \E reached \in Reached :
          LET fileExists == ranTest(reached, composeFile \in DOMAIN remoteFiles)
          IN  /\ addCmds' = Append(addCmds, Ran("test -f", composeFile, fileExists))
              /\ IF ~fileExists.success
                 THEN ExitOne(<< <<"ERROR", Msg("docker-compose.yml not found on VPS: ${composeFile}", composeFile)>> >>)
                 ELSE /\ addPc' = "serviceExists"
                      /\ UNCHANGED <<addPrinted, addExit>>
    /\ UNCHANGED <<addArgs, addLocals, invocations, remoteVars, clock>>
    /\ UNCHANGED besideCompose

\* grep -q "^  alias:" composeFile: the alias must be new.  Then the service
\* type is looked up: mysql has its descriptor at once, bun goes on to its
\* app directory, any other type ends the invocation.
CheckServiceExists ==
    /\ addPc = "serviceExists"
    /\ \E reached \in Reached :
          LET serviceExists ==
                  ranTest(reached, /\ composeFile \in DOMAIN remoteFiles
                                   /\ grepServiceKey(remoteFiles[composeFile], addArgs.alias))
              adding == <<"INFO", Msg("Adding ${serviceType} service '${alias}' to project '${projectName}' on VPS",
                                      <<addArgs.serviceType, addArgs.alias, addArgs.projectName>>)>>
          IN  /\ addCmds' = Append(addCmds, Ran("grep -q", composeFile, serviceExists))
              /\ IF serviceExists.success
                 THEN /\ ExitOne(<< <<"WARN", Msg("Service '${alias}' already exists in docker-compose.yml", addArgs.alias)>> >>)
                      /\ UNCHANGED serviceConfig
                 ELSE IF serviceKind(addArgs.serviceType) = "bun"
                 THEN /\ addPrinted' = Append(addPrinted, adding)
                      /\ addPc' = "mkdir"
                      /\ UNCHANGED <<serviceConfig, addExit>>
                 ELSE IF serviceKind(addArgs.serviceType) = "mysql"
                 THEN /\ addPrinted' = Append(addPrinted, adding)
                      /\ serviceConfig' = getMysqlService(addArgs.alias)
                      /\ addPc' = "fetch"
                      /\ UNCHANGED addExit
                 ELSE /\ ExitOne(<< adding,
                                    <<"ERROR", Msg("Unknown service type: ${serviceType}", addArgs.serviceType)>>,
                                    <<"INFO", Msg("Supported types: bun, mysql", <<>>)>> >>)
                      /\ UNCHANGED serviceConfig
    /\ UNCHANGED <<addArgs, composeHome, composeContent, backupFile, newContent,
                   invocations, remoteVars, clock>>
    /\ UNCHANGED besideCompose

\* mkdir -p appDir for a Bun service; what it returns is not looked at.
MakeAppDir ==
    /\ addPc = "mkdir"
    /\ \E reached \in Reached :
          /\ addCmds' = Append(addCmds, Ran("mkdir -p", appDir, ranTest(reached, TRUE)))
          /\ remoteDirs' = IF reached THEN remoteDirs \cup {appDir} ELSE remoteDirs
    /\ addPrinted' = Append(addPrinted, <<"INFO", Msg("Created app directory on VPS: ${appDir}", appDir)>>)
    /\ addPc' = "getBunService"
    /\ UNCHANGED <<addArgs, addLocals, addExit, invocations, remoteFiles, clock>>
    /\ UNCHANGED besideCompose

\* getBunService: id -u, then id -g, each through sshExecStdout; the
\* descriptor is made of the two.
GetBunService ==
    /\ addPc = "getBunService"
    /\ \E reachedU \in Reached, reachedG \in Reached :
          LET uidResult == ranPrint(reachedU, <<"1","0","0","0">>)
              gidResult == ranPrint(reachedG, <<"1","0","0","0">>)
              uid == trim(filterMOTDFromOutput(uidResult.stdout, <<>>))
              gid == trim(filterMOTDFromOutput(gidResult.stdout, <<>>))
          IN  IF ~uidResult.success
              THEN /\ reachedG
                   /\ addCmds' = Append(addCmds, Ran("id -u", <<>>, uidResult))
                   /\ CommandFailed(uidResult)
                   /\ UNCHANGED serviceConfig
              ELSE IF ~gidResult.success
              THEN /\ addCmds' = addCmds \o << Ran("id -u", <<>>, uidResult),
                                               Ran("id -g", <<>>, gidResult) >>
                   /\ CommandFailed(gidResult)
                   /\ UNCHANGED serviceConfig
              ELSE /\ addCmds' = addCmds \o << Ran("id -u", <<>>, uidResult),
                                               Ran("id -g", <<>>, gidResult) >>
                   /\ IF uid = <<>> \/ gid = <<>>
                      THEN /\ ExitOne(<< <<"ERROR", Msg("Command failed: ${error.message}", <<"F","a","i","l","e","d"," ","t","o"," ","g","e","t"," ","U","I","D","/","G","I","D"," ","f","r","o","m"," ","V","P","S">>)>> >>)
                           /\ UNCHANGED serviceConfig
                      ELSE /\ serviceConfig' = getBunService(addArgs.alias, appDir, uid, gid)
                           /\ addPc' = "fetch"
                           /\ UNCHANGED <<addPrinted, addExit>>
    /\ UNCHANGED <<addArgs, composeHome, composeContent, backupFile, newContent,
                   invocations, remoteVars, clock>>
    /\ UNCHANGED besideCompose

\* cat composeFile, through sshExecStdout: the document is fetched.
FetchDocument ==
    /\ addPc = "fetch"
    /\ \E reached \in Reached :
          LET result == IF reached /\ composeFile \in DOMAIN remoteFiles
                        THEN sshExec(Exited(0, remoteFiles[composeFile], <<>>))
                        ELSE sshExec(ConnectionFailed)
          IN  /\ addCmds' = Append(addCmds, Ran("cat", composeFile, result))
              /\ IF result.success
                 THEN /\ composeContent' = result.stdout
                      /\ addPc' = "backup"
                      /\ UNCHANGED <<addPrinted, addExit>>
                 ELSE /\ CommandFailed(result)
                      /\ UNCHANGED composeContent
    /\ UNCHANGED <<addArgs, composeHome, serviceConfig, backupFile, newContent,
                   invocations, remoteVars, clock>>
    /\ UNCHANGED besideCompose

\* The clock is read for the name of the backup and cp is run; what cp
\* returns is not looked at.  Then the document is edited in memory.
BackupDocument ==
    /\ addPc = "backup"
    /\ \E advance \in ClockAdvances : clock' = clock + advance
    /\ backupFile' = backupFileOf(timestampOf(clock'))
    /\ \E reached \in Reached :
          /\ addCmds' = Append(addCmds, Ran("cp", backupFile',
                                            ranTest(reached, composeFile \in DOMAIN remoteFiles)))
          /\ remoteFiles' = IF reached /\ composeFile \in DOMAIN remoteFiles
                            THEN writeFile(remoteFiles, backupFile', remoteFiles[composeFile])
                            ELSE remoteFiles
    /\ addPrinted' = Append(addPrinted, <<"INFO", Msg("Backup created on VPS at: ${backupFile}", backupFile')>>)
    /\ newContent' = editDocument(composeContent, toLowerCase(addArgs.serviceType),
                                  addArgs.alias, serviceConfig)
    /\ addPc' = "upload"
    /\ UNCHANGED <<addArgs, composeHome, serviceConfig, composeContent, addExit,
                   invocations, remoteDirs>>
    /\ UNCHANGED besideCompose

\* cat > composeFile with the edited document on stdin; what it returns is
\* not looked at.  addService returns and the process ends.
UploadDocument ==
    /\ addPc = "upload"
    /\ \E reached \in Reached :
          /\ addCmds' = Append(addCmds, Ran("cat >", composeFile, ranTest(reached, TRUE)))
          /\ remoteFiles' = IF reached THEN writeFile(remoteFiles, composeFile, newContent)
                            ELSE remoteFiles
    /\ addPrinted' = addPrinted
          \o << <<"OK", Msg("Service '${alias}' added successfully on VPS", addArgs.alias)>>,
                <<"INFO", Msg("Review and customize on VPS: ${composeFile}", composeFile)>> >>
          \o (IF toLowerCase(addArgs.serviceType) = <<"m","y","s","q","l">>
              THEN << <<"WARN", Msg("Remember to change MySQL passwords in docker-compose.yml on VPS", <<>>)>> >>
              ELSE <<>>)
    /\ addExit' = 0
    /\ addPc' = "exited"
    /\ UNCHANGED <<addArgs, addLocals, invocations, remoteDirs, clock>>
    /\ UNCHANGED besideCompose

ComposeNext ==
    \/ Invoke
    \/ GetComposeHome
    \/ CheckProjectDir
    \/ CheckComposeFile
    \/ CheckServiceExists
    \/ MakeAppDir
    \/ GetBunService
    \/ FetchDocument
    \/ BackupDocument
    \/ UploadDocument

ComposeSpec == ComposeInit /\ [][ComposeNext]_vars

\* ------------------------------------------------------------------------
\* Configuration loader (lib/config)
\* ------------------------------------------------------------------------

\* An optional text: undefined, or a text.
Undefined == [defined |-> FALSE, text |-> <<>>]

Defined(text) == [defined |-> TRUE, text |-> text]

\* An environment is a function from names to texts; env[key] = value.
setEnv(env, key, value) ==
    [k \in DOMAIN env \cup {key} |-> IF k = key THEN value ELSE env[k]]

\* value.slice(1, -1) when the value starts and ends with the same quote.
unquote(value) ==
    IF \/ (startsWith(value, <<"\"">>) /\ value[Len(value)] = "\"")
       \/ (startsWith(value, <<"'">>) /\ value[Len(value)] = "'")
    THEN SubSeq(value, 2, Len(value) - 1)
    ELSE value

\* One iteration of the loop of loadEnvFile: blank lines and comments are
\* skipped; /^([^=]+)=(.*)$/ takes the text up to the first "=" for the key
\* and the rest for the value, and a line is kept when both are not empty.
loadEnvLine(env, line) ==
    LET trimmed == trim(line)
        eq      == indexOf(trimmed, <<"=">>, 0)
        key     == trim(SubSeq(trimmed, 1, eq))
        value   == trim(sliceFrom(trimmed, eq + 1))
    IN  IF trimmed = <<>> \/ startsWith(trimmed, <<"#">>) THEN env
        ELSE IF eq < 1 \/ eq + 1 = Len(trimmed) THEN env
        ELSE setEnv(env, key, unquote(value))

RECURSIVE loadEnvLines(_, _)
loadEnvLines(env, lines) ==
    IF lines = <<>> THEN env
    ELSE loadEnvLines(loadEnvLine(env, Head(lines)), Tail(lines))

\* loadEnvFile: no file gives the empty environment.
loadEnvFile(envFile) ==
    IF ~envFile.defined THEN <<>> ELSE loadEnvLines(<<>>, split(envFile.text, "\n"))

\* A mutation of the merge below: the file goes over the process environment.
mergeEnvFileLast(fileEnv, processEnv) ==
    [k \in DOMAIN fileEnv \cup DOMAIN processEnv |->
        IF k \in DOMAIN fileEnv THEN fileEnv[k] ELSE processEnv[k]]

\* { ...fileEnv, ...process.env }
mergeEnv(fileEnv, processEnv) ==
    [k \in DOMAIN fileEnv \cup DOMAIN processEnv |->
        IF k \in DOMAIN processEnv THEN processEnv[k] ELSE fileEnv[k]]

\* env.KEY: undefined when the environment has no such name.
lookupEnv(env, key) == IF key \in DOMAIN env THEN Defined(env[key]) ELSE Undefined

\* loadVPSConfig, from the .env file found and the process environment.
loadVPSConfig(envFile, processEnv) ==
    LET env == mergeEnv(loadEnvFile(envFile), processEnv)
    IN  [vpsHost      |-> lookupEnv(env, <<"V","P","S","_","H","O","S","T">>).text,
         vpsUser      |-> lookupEnv(env, <<"V","P","S","_","U","S","E","R">>).text,
         vpsHostname  |-> lookupEnv(env, <<"V","P","S","_","H","O","S","T","N","A","M","E">>),
         vpsTimezone  |-> lookupEnv(env, <<"V","P","S","_","T","I","M","E","Z","O","N","E">>),
         vpsSshPubkey |-> lookupEnv(env, <<"V","P","S","_","S","S","H","_","P","U","B","K","E","Y">>)]

\* ------------------------------------------------------------------------
\* The functions that keep no state, each followed as one call
\* ------------------------------------------------------------------------

\* Four .env files.
EnvFileTexts ==
    << <<"V","P","S","_","H","O","S","T","=","f","i","l","e",".","e","x","a","m","p","l","e","\n","V","P","S","_","U","S","E","R","=","\"","d","e","p","l","o","y","\"","\n">>,
       <<"#"," ","V","P","S","_","H","O","S","T","=","o","l","d",".","e","x","a","m","p","l","e","\n","\n","V","P","S","_","H","O","S","T"," ","="," ","f","i","l","e",".","e","x","a","m","p","l","e","\n","V","P","S","_","H","O","S","T","N","A","M","E","=","'","w","e","b","1","'","\n","V","P","S","_","T","I","M","E","Z","O","N","E","=","E","u","r","o","p","e","/","P","a","r","i","s","\n">>,
       <<"V","P","S","_","H","O","S","T","=","f","i","r","s","t",".","e","x","a","m","p","l","e","\n","V","P","S","_","H","O","S","T","=","f","i","l","e",".","e","x","a","m","p","l","e","\n","V","P","S","_","S","S","H","_","P","U","B","K","E","Y","=","\n","V","P","S","_","U","S","E","R","=","d","e","p","l","o","y">>,
       <<"V","P","S","_","U","S","E","R","=","\"","\"","\n","V","P","S","_","S","S","H","_","P","U","B","K","E","Y","=","s","s","h","-","e","d","2","5","5","1","9"," ","A","A","A","A","=","\n","n","o","t"," ","a"," ","s","e","t","t","i","n","g","\n","=","x","\n">> >>

\* The .env file found: none, or one of the four.
EnvFiles == {Undefined} \cup {Defined(EnvFileTexts[i]) : i \in 1..Len(EnvFileTexts)}

\* The process environments.
ProcessEnvs ==
    { <<>>,
      <<"V","P","S","_","H","O","S","T">> :> <<"e","n","v",".","e","x","a","m","p","l","e">>,
      <<"V","P","S","_","H","O","S","T">> :> <<>>,
      (<<"V","P","S","_","H","O","S","T">> :> <<"e","n","v",".","e","x","a","m","p","l","e">>) @@ (<<"V","P","S","_","U","S","E","R">> :> <<"r","o","o","t">>),
      (<<"V","P","S","_","H","O","S","T","N","A","M","E">> :> <<"w","e","b","2">>) @@ (<<"V","P","S","_","T","I","M","E","Z","O","N","E">> :> <<"U","T","C">>) @@ (<<"P","A","T","H">> :> <<"/","u","s","r","/","b","i","n">>),
      (<<"V","P","S","_","S","S","H","_","P","U","B","K","E","Y">> :> <<"s","s","h","-","r","s","a"," ","B","B","B","B">>) @@ (<<"V","P","S","_","U","S","E","R">> :> <<>>) }

\* What a remote command can print, with and without a banner.
MotdOutputs ==
    { <<>>,
      <<" "," "," ","\n"," ","\n">>,
      <<"/","h","o","m","e","/","d","e","p","l","o","y">>,
      <<"W","e","l","c","o","m","e"," ","t","o"," ","U","b","u","n","t","u"," ","2","4",".","0","4","\n","\n"," ","*"," ","D","o","c","u","m","e","n","t","a","t","i","o","n","\n"," "," ","/","h","o","m","e","/","d","e","p","l","o","y"," "," ","\n">>,
      <<"L","a","s","t"," ","l","o","g","i","n",":"," ","M","o","n","\n","S","t","a","t","u","s",":"," ","a","c","t","i","v","e","\n","T","o"," ","A","c","t","i","o","n"," ","F","r","o","m","\n">>,
      <<"S","t","a","t","u","s",":"," ","i","n","a","c","t","i","v","e">>,
      <<"w","a","r","n","i","n","g","\n","S","t","a","t","u","s",":"," ","a","c","t","i","v","e","\n","L","o","g","g","i","n","g"," ","S","t","a","t","u","s",":"," ","o","n","\n","\n">>,
      <<"l","i","n","e"," ","o","n","e","\r","\n","l","i","n","e"," ","t","w","o","\r","\n">> }

\* The markers given: none, and two texts.
MotdMarkers == { <<>>, <<"S","t","a","t","u","s",":">>, <<"P","E","R","M","I","T","_","R","O","O","T","=">> }

\* What the script of the SSH hardening check can print.
SshConfigBlobs ==
    { <<>>,
      <<"P","E","R","M","I","T","_","R","O","O","T","=","n","o","\n","P","A","S","S","W","O","R","D","_","A","U","T","H","=","n","o","\n","C","H","A","L","L","E","N","G","E","_","R","E","S","P","=","n","o","\n","A","L","L","O","W","_","U","S","E","R","S","=","d","e","p","l","o","y","\n","U","S","E","_","D","N","S","=","n","o">>,
      <<"P","E","R","M","I","T","_","R","O","O","T","=","\n","P","A","S","S","W","O","R","D","_","A","U","T","H","=","\n","C","H","A","L","L","E","N","G","E","_","R","E","S","P","=","\n","A","L","L","O","W","_","U","S","E","R","S","=","\n","U","S","E","_","D","N","S","=">>,
      <<"W","e","l","c","o","m","e"," ","t","o"," ","U","b","u","n","t","u","\n","P","E","R","M","I","T","_","R","O","O","T","=","y","e","s","\n","U","S","E","_","D","N","S","=","\n">>,
      <<"A","L","L","O","W","_","U","S","E","R","S","=","d","e","p","l","o","y"," ","a","d","m","i","n","=","x","\n","C","H","A","L","L","E","N","G","E","_","R","E","S","P","=","y","e","s">>,
      <<" "," ","P","A","S","S","W","O","R","D","_","A","U","T","H","=","y","e","s"," "," ","\n">>,
      <<"P","E","R","M","I","T","_","R","O","O","T","=","n","o","\n","P","E","R","M","I","T","_","R","O","O","T","=","\n","U","S","E","_","D","N","S","=","=","n","o">>,
      <<"s","s","h",":"," ","c","o","n","n","e","c","t"," ","t","o"," ","h","o","s","t"," ","v","p","s","1"," ","p","o","r","t"," ","2","2",":"," ","C","o","n","n","e","c","t","i","o","n"," ","r","e","f","u","s","e","d">> }

\* The compose documents a service is put into.
ComposeDocuments ==
    { trim(initialDocument(<<"p","m","e">>)),
      trim(DocumentWithVolumes),
      trim(DocumentWithoutServices),
      <<"s","e","r","v","i","c","e","s",":","\n"," "," ","w","e","b",":","\n"," "," "," "," ","i","m","a","g","e",":"," ","n","g","i","n","x",":","a","l","p","i","n","e">>,
      <<"s","e","r","v","i","c","e","s",":","\n"," "," ","#"," ","t","h","e"," ","s","e","r","v","i","c","e","s"," ","o","f"," ","t","h","e"," ","p","r","o","j","e","c","t","\n","\n"," "," ","w","e","b",":","\n"," "," "," "," ","i","m","a","g","e",":"," ","n","g","i","n","x",":","a","l","p","i","n","e","\n"," "," ","a","p","i",":","\n"," "," "," "," ","i","m","a","g","e",":"," ","n","o","d","e",":","2","2">>,
      <<"s","e","r","v","i","c","e","s",":","\n"," "," ","w","e","b",":","\n"," "," "," "," ","i","m","a","g","e",":"," ","n","g","i","n","x",":","a","l","p","i","n","e","\n","#"," ","d","a","t","a","b","a","s","e","s","\n"," "," ","a","p","i",":","\n"," "," "," "," ","i","m","a","g","e",":"," ","n","o","d","e",":","2","2">>,
      <<"v","e","r","s","i","o","n",":"," ","\"","3","\"","\n","s","e","r","v","i","c","e","s",":","\n"," "," ","w","e","b",":","\n"," "," "," "," ","i","m","a","g","e",":"," ","n","g","i","n","x",":","a","l","p","i","n","e","\n","\n","v","o","l","u","m","e","s",":","\n"," "," ","w","e","b","_","d","a","t","a",":","\n","n","e","t","w","o","r","k","s",":","\n"," "," ","d","e","f","a","u","l","t",":">> }

\* The service descriptors put in.
ServiceDescriptors ==
    { getMysqlService(<<"d","b">>),
      getBunService(<<"a","p","p">>, <<"/","h","o","m","e","/","d","e","p","l","o","y","/","p","m","e","/","a","p","p","s","/","a","p","p">>, <<"1","0","0","0">>, <<"1","0","0","0">>) }

\* The calls followed.
LibCalls ==
    { [fn |-> "loadVPSConfig", envFile |-> f, processEnv |-> e]
        : f \in EnvFiles, e \in ProcessEnvs }
    \cup { [fn |-> "filterMOTDFromOutput", output |-> o, outputMarker |-> m]
             : o \in MotdOutputs, m \in MotdMarkers }
    \cup { [fn |-> "parseSSHConfig", output |-> o] : o \in SshConfigBlobs }
    \cup { [fn |-> "insertService", content |-> d, descriptor |-> c]
             : d \in ComposeDocuments, c \in ServiceDescriptors }

LibInit ==
    /\ AuditIdle
    /\ ListeningIdle
    /\ ExecIdle
    /\ ComposeIdle
    /\ HomeIdle
    /\ ProvisionIdle
    /\ libPc = "called"
    /\ libCall \in LibCalls
    /\ libResult = <<>>

LoadVPSConfig ==
    /\ libPc = "called"
    /\ libCall.fn = "loadVPSConfig"
    /\ libResult' = loadVPSConfig(libCall.envFile, libCall.processEnv)
    /\ libPc' = "returned"
    /\ UNCHANGED libCall
    /\ UNCHANGED besideLib

FilterMOTDFromOutput ==
    /\ libPc = "called"
    /\ libCall.fn = "filterMOTDFromOutput"
    /\ libResult' = filterMOTDFromOutput(libCall.output, libCall.outputMarker)
    /\ libPc' = "returned"
    /\ UNCHANGED libCall
    /\ UNCHANGED besideLib

ParseSSHConfig ==
    /\ libPc = "called"
    /\ libCall.fn = "parseSSHConfig"
    /\ libResult' = parseSSHConfig(libCall.output)
    /\ libPc' = "returned"
    /\ UNCHANGED libCall
    /\ UNCHANGED besideLib

\* The part of addService that puts the descriptor into the lines of the
\* document.
InsertService ==
    /\ libPc = "called"
    /\ libCall.fn = "insertService"
    /\ libResult' = insertService(split(libCall.content, "\n"), libCall.descriptor)
    /\ libPc' = "returned"
    /\ UNCHANGED libCall
    /\ UNCHANGED besideLib

LibNext ==
    \/ LoadVPSConfig
    \/ FilterMOTDFromOutput
    \/ ParseSSHConfig
    \/ InsertService

LibSpec == LibInit /\ [][LibNext]_vars

\* ------------------------------------------------------------------------
\* getComposeHome and its cache (lib/compose), called again and again in one
\* process
\* ------------------------------------------------------------------------

MaxHomeCalls == 4

\* The hosts asked for, each with the home directory of its user.
HomeHosts == { [host |-> <<"v","p","s","1">>, home |-> <<"/","h","o","m","e","/","d","e","p","l","o","y">>],
               [host |-> <<"v","p","s","2">>, home |-> <<"/","r","o","o","t">>] }

\* What echo $HOME can come to on a host: the home directory, alone or
\* after a banner, nothing, or no connection.
HomeOutcomes(h) ==
    { Exited(0, h.home \o <<"\n">>, <<>>),
      Exited(0, <<"W","e","l","c","o","m","e"," ","t","o"," ","U","b","u","n","t","u"," ","2","4",".","0","4","\n","\n">> \o h.home \o <<"\n">>, <<>>),
      Exited(0, <<>>, <<>>),
      ConnectionFailed }

\* A mutation of the test below: only null is taken for no cache.
cacheNotNull(cache) == ~cache.isNull

\* composeHomeCache is truthy: not null and not the empty text.
cacheTruthy(cache) == ~cache.isNull /\ cache.text # <<>>

HomeInit ==
    /\ AuditIdle
    /\ ListeningIdle
    /\ ExecIdle
    /\ ComposeIdle
    /\ LibIdle
    /\ ProvisionIdle
    /\ composeHomeCache = NoCache
    /\ homeCalls = <<>>
    /\ homeLookups = 0

\* One call of getComposeHome, from its entry to its return or to the error
\* sshExecStdout throws.
CallGetComposeHome ==
    /\ Len(homeCalls) < MaxHomeCalls
    /\ \E h \in HomeHosts :
          IF cacheTruthy(composeHomeCache)
          THEN /\ homeCalls' = Append(homeCalls, [host |-> h.host, issued |-> FALSE,
                                                  threw |-> FALSE,
                                                  value |-> composeHomeCache.text])
               /\ UNCHANGED <<composeHomeCache, homeLookups>>
          ELSE \E outcome \in HomeOutcomes(h) :
                  LET result == sshExec(outcome)
                      home   == filterMOTDFromOutput(result.stdout, <<>>)
                  IN  /\ homeLookups' = homeLookups + 1
                      /\ IF result.success
                         THEN /\ composeHomeCache' = [isNull |-> FALSE, text |-> home]
                              /\ homeCalls' = Append(homeCalls, [host |-> h.host, issued |-> TRUE,
                                                                 threw |-> FALSE, value |-> home])
                         ELSE /\ homeCalls' = Append(homeCalls, [host |-> h.host, issued |-> TRUE,
                                                                 threw |-> TRUE, value |-> <<>>])
                              /\ UNCHANGED composeHomeCache
    /\ UNCHANGED besideHome

HomeNext == CallGetComposeHome

HomeSpec == HomeInit /\ [][HomeNext]_vars

\* ------------------------------------------------------------------------
\* compose init and git clone as a state machine: initProject and cloneRepo,
\* one step per remote command awaited, on a remote host that keeps its
\* files from one invocation to the next
\* ------------------------------------------------------------------------

gitDirOf(dir) == dir \o <<"/",".","g","i","t">>

\* dirname: the path up to its last slash.
dirname(path) ==
    LET slashes == {i \in 1..Len(path) : path[i] = "/"}
    IN  IF slashes = {} THEN <<".">> ELSE SubSeq(path, 1, MaxOf(slashes) - 1)

\* The document of the project pme after compose add pme mysql db.
DocumentAfterAdd ==
    editDocument(initialDocument(<<"p","m","e">>), <<"m","y","s","q","l">>, <<"d","b">>, getMysqlService(<<"d","b">>))

\* The file systems the remote host can start with: the project pme, its
\* document changed by an add; its app directory absent, a directory that is
\* no repository, or a repository.
ProjectFileSystems ==
    { [dirs  |-> {projectDirOf(RemoteHome, <<"p","m","e">>)} \cup apps,
       files |-> composeFileOf(projectDirOf(RemoteHome, <<"p","m","e">>)) :> DocumentAfterAdd]
        : apps \in { {},
                     {appDirOf(RemoteHome, <<"p","m","e">>, <<"a","p","p">>)},
                     {appDirOf(RemoteHome, <<"p","m","e">>, <<"a","p","p">>),
                      gitDirOf(appDirOf(RemoteHome, <<"p","m","e">>, <<"a","p","p">>))} } }

\* The arguments of compose init and of git clone.
InitArguments ==
    { [command |-> "init", projectName |-> p, alias |-> <<>>, cloneUrl |-> <<>>]
        : p \in { <<"p","m","e">>, <<"b","l","o","g">>, <<>> } }

CloneArguments ==
    { [command |-> "clone", projectName |-> <<"p","m","e">>, alias |-> a, cloneUrl |-> u]
        : a \in { <<"a","p","p">>, <<>> },
          u \in { <<"g","i","t","@","g","i","t","h","u","b",".","c","o","m",":","a","c","m","e","/","a","p","p",".","g","i","t">>, <<"h","t","t","p","s",":","/","/","g","i","t","l","a","b",".","c","o","m","/","a","c","m","e","/","a","p","p",".","g","i","t">> } }

\* rm -rf dir: what is left of a set of paths.
removeTree(paths, dir) ==
    {p \in paths : p # dir /\ ~startsWith(p, dir \o <<"/">>)}

\* A command that changes the remote host, answered by the host or not.
ranChange(reached, works) ==
    IF ~reached THEN sshExec(ConnectionFailed)
    ELSE IF works THEN sshExec(Exited(0, <<>>, <<>>))
    ELSE sshExec(Exited(1, <<>>, <<"N","o"," ","s","u","c","h"," ","f","i","l","e"," ","o","r"," ","d","i","r","e","c","t","o","r","y">>))

ProjectInit ==
    /\ AuditIdle
    /\ ListeningIdle
    /\ ExecIdle
    /\ OthersIdle
    /\ addPc = "idle"
    /\ addArgs = [command |-> "none", projectName |-> <<>>, alias |-> <<>>, cloneUrl |-> <<>>]
    /\ composeHome = <<>>
    /\ serviceConfig = <<>>
    /\ composeContent = <<>>
    /\ backupFile = <<>>
    /\ newContent = <<>>
    /\ addCmds = <<>>
    /\ addPrinted = <<>>
    /\ addExit = -1
    /\ invocations = 0
    /\ clock = 0
    /\ \E fs \in ProjectFileSystems : remoteDirs = fs.dirs /\ remoteFiles = fs.files

\* What every step of the two commands leaves alone.
projectFrame ==
    /\ UNCHANGED <<serviceConfig, composeContent, backupFile, newContent, clock>>
    /\ UNCHANGED besideCompose

\* The command goes on to its next remote command.
GoOn(next) ==
    /\ addPc' = next
    /\ UNCHANGED <<addPrinted, addExit>>

\* The command returns: compose() and git() end with exit code 0.
Done(lines) ==
    /\ addPrinted' = addPrinted \o lines
    /\ addExit' = 0
    /\ addPc' = "exited"

\* A new process: the arguments are given and checked, up to the first
\* remote command.
InvokeProjectCommand ==
    /\ addPc \in {"idle", "exited"}
    /\ invocations < MaxInvocations
    /\ invocations' = invocations + 1
    /\ \E args \in InitArguments \cup CloneArguments :
          /\ addArgs' = args
          /\ IF args.command = "init" /\ args.projectName = <<>>
             THEN /\ addPrinted' = << <<"ERROR", Msg("Project name is required", <<>>)>>,
                                      <<"RAW", Msg("Usage: bin/compose <command> [arguments]", <<>>)>> >>
                  /\ addExit' = 1
                  /\ addPc' = "exited"
             ELSE IF args.command = "clone"
                     /\ (args.projectName = <<>> \/ args.alias = <<>> \/ args.cloneUrl = <<>>)
             THEN /\ addPrinted' = << <<"ERROR", Msg("Project name, container alias, and clone URL are required", <<>>)>> >>
                  /\ addExit' = 1
                  /\ addPc' = "exited"
             ELSE /\ addPrinted' = <<>>
                  /\ addExit' = -1
                  /\ addPc' = "home"
    /\ composeHome' = <<>>
    /\ addCmds' = <<>>
    /\ UNCHANGED remoteVars
    /\ projectFrame

\* getComposeHome, in a process that has no cache yet: echo $HOME, through
\* sshExecStdout.
LookUpHome ==
    /\ addPc = "home"
    /\ \E reached \in Reached :
          LET result == ranPrint(reached, RemoteHome)
          IN  /\ addCmds' = Append(addCmds, Ran("echo $HOME", <<>>, result))
              /\ IF result.success
                 THEN /\ composeHome' = filterMOTDFromOutput(result.stdout, <<>>)
                      /\ GoOn(IF addArgs.command = "init" THEN "initDirExists" ELSE "gitExists")
                 ELSE /\ CommandFailed(result)
                      /\ UNCHANGED composeHome
    /\ UNCHANGED <<addArgs, invocations, remoteVars>>
    /\ projectFrame

\* initProject: [ -d projectDir ], and the exit when it succeeds.
InitCheckProjectDir ==
    /\ addPc = "initDirExists"
    /\ \E reached \in Reached :
          LET dirExists == ranTest(reached, projectDir \in remoteDirs)
          IN  /\ addCmds' = Append(addCmds, Ran("test -d", projectDir, dirExists))
              /\ IF dirExists.success
                 THEN ExitOne(<< <<"WARN", Msg("Project directory already exists on VPS: ${projectDir}", projectDir)>> >>)
                 ELSE /\ addPrinted' = Append(addPrinted, <<"INFO", Msg("Initializing docker-compose project on VPS: ${projectName}", addArgs.projectName)>>)
                      /\ addPc' = "initMkdir"
                      /\ UNCHANGED addExit
    /\ UNCHANGED <<addArgs, composeHome, invocations, remoteVars>>
    /\ projectFrame

\* initProject: mkdir -p projectDir; its result is not looked at.
InitMakeProjectDir ==
    /\ addPc = "initMkdir"
    /\ \E reached \in Reached :
          /\ addCmds' = Append(addCmds, Ran("mkdir -p", projectDir, ranChange(reached, TRUE)))
          /\ remoteDirs' = IF reached THEN remoteDirs \cup {projectDir} ELSE remoteDirs
    /\ GoOn("initWrite")
    /\ UNCHANGED <<addArgs, composeHome, invocations, remoteFiles>>
    /\ projectFrame

\* initProject: cat > projectDir/docker-compose.yml with the first document
\* on its input; its result is not looked at.  The shell opens the file, and
\* empties it, when the directory is there.
InitWriteDocument ==
    /\ addPc = "initWrite"
    /\ \E reached \in Reached :
          LET written == reached /\ projectDir \in remoteDirs
          IN  /\ addCmds' = Append(addCmds, Ran("cat >", composeFile,
                                                ranChange(reached, projectDir \in remoteDirs)))
              /\ remoteFiles' = IF written
                                THEN writeFile(remoteFiles, composeFile, initialDocument(addArgs.projectName))
                                ELSE remoteFiles
    /\ Done(<< <<"OK", Msg("Project initialized on VPS at: ${projectDir}", projectDir)>>,
               <<"INFO", Msg("You can now add services using: bin/compose add ${projectName} <type> <alias>", addArgs.projectName)>> >>)
    /\ UNCHANGED <<addArgs, composeHome, invocations, remoteDirs>>
    /\ projectFrame

\* cloneRepo: [ -d appDir/.git ], and the exit when it succeeds.
CloneCheckGitDir ==
    /\ addPc = "gitExists"
    /\ \E reached \in Reached :
          LET gitExists == ranTest(reached, gitDirOf(appDir) \in remoteDirs)
          IN  /\ addCmds' = Append(addCmds, Ran("test -d", gitDirOf(appDir), gitExists))
              /\ IF gitExists.success
                 THEN ExitOne(<< <<"WARN", Msg("Git repository already exists on VPS: ${appDir}", appDir)>>,
                                 <<"INFO", Msg("If you want to re-clone, remove the directory first", <<>>)>> >>)
                 ELSE GoOn("cloneDirExists")
    /\ UNCHANGED <<addArgs, composeHome, invocations, remoteVars>>
    /\ projectFrame

\* cloneRepo: [ -d appDir ]; the directory is removed when it succeeds.
CloneCheckAppDir ==
    /\ addPc = "cloneDirExists"
    /\ \E reached \in Reached :
          LET dirExists == ranTest(reached, appDir \in remoteDirs)
          IN  /\ addCmds' = Append(addCmds, Ran("test -d", appDir, dirExists))
              /\ IF dirExists.success
                 THEN /\ addPrinted' = Append(addPrinted, <<"INFO", Msg("Removing existing non-git directory: ${appDir}", appDir)>>)
                      /\ addPc' = "removeDir"
                 ELSE /\ addPrinted' = Append(addPrinted, <<"INFO", Msg("Cloning repository into ${appDir} on VPS", appDir)>>)
                      /\ addPc' = IF includes(addArgs.cloneUrl, <<"g","i","t","h","u","b",".","c","o","m">>) THEN "keyscan" ELSE "makeParent"
    /\ UNCHANGED <<addArgs, composeHome, addExit, invocations, remoteVars>>
    /\ projectFrame

\* cloneRepo: rm -rf appDir; its result is not looked at.
CloneRemoveAppDir ==
    /\ addPc = "removeDir"
    /\ \E reached \in Reached :
          /\ addCmds' = Append(addCmds, Ran("rm -rf", appDir, ranChange(reached, TRUE)))
          /\ remoteDirs' = IF reached THEN removeTree(remoteDirs, appDir) ELSE remoteDirs
          /\ remoteFiles' = IF reached
                            THEN [p \in removeTree(DOMAIN remoteFiles, appDir) |-> remoteFiles[p]]
                            ELSE remoteFiles
    /\ addPrinted' = Append(addPrinted, <<"INFO", Msg("Cloning repository into ${appDir} on VPS", appDir)>>)
    /\ addPc' = IF includes(addArgs.cloneUrl, <<"g","i","t","h","u","b",".","c","o","m">>) THEN "keyscan" ELSE "makeParent"
    /\ UNCHANGED <<addArgs, composeHome, addExit, invocations>>
    /\ projectFrame

\* cloneRepo: ssh-keyscan for a GitHub URL; its result is not looked at.
CloneKeyscan ==
    /\ addPc = "keyscan"
    /\ \E reached \in Reached :
          addCmds' = Append(addCmds, Ran("ssh-keyscan", <<>>, ranChange(reached, TRUE)))
    /\ GoOn("makeParent")
    /\ UNCHANGED <<addArgs, composeHome, invocations, remoteVars>>
    /\ projectFrame

\* cloneRepo: mkdir -p of the parent of appDir; its result is not looked at.
CloneMakeParent ==
    /\ addPc = "makeParent"
    /\ \E reached \in Reached :
          /\ addCmds' = Append(addCmds, Ran("mkdir -p", dirname(appDir), ranChange(reached, TRUE)))
          /\ remoteDirs' = IF reached
                           THEN remoteDirs \cup {dirname(appDir), dirname(dirname(appDir))}
                           ELSE remoteDirs
    /\ GoOn("gitClone")
    /\ UNCHANGED <<addArgs, composeHome, invocations, remoteFiles>>
    /\ projectFrame

\* cloneRepo: git clone cloneUrl appDir; its result is not looked at.  git
\* refuses a directory that is there (the directories of this host are not
\* empty) and one whose parent is missing.
CloneGitClone ==
    /\ addPc = "gitClone"
    /\ \E reached \in Reached :
          LET works == appDir \notin remoteDirs /\ dirname(appDir) \in remoteDirs
          IN  /\ addCmds' = Append(addCmds, Ran("git clone", appDir, ranChange(reached, works)))
              /\ remoteDirs' = IF reached /\ works
                               THEN remoteDirs \cup {appDir, gitDirOf(appDir)}
                               ELSE remoteDirs
    /\ Done(<< <<"OK", Msg("Repository cloned successfully to: ${appDir}", appDir)>> >>)
    /\ UNCHANGED <<addArgs, composeHome, invocations, remoteFiles>>
    /\ projectFrame

ProjectNext ==
    \/ InvokeProjectCommand
    \/ LookUpHome
    \/ InitCheckProjectDir
    \/ InitMakeProjectDir
    \/ InitWriteDocument
    \/ CloneCheckGitDir
    \/ CloneCheckAppDir
    \/ CloneRemoveAppDir
    \/ CloneKeyscan
    \/ CloneMakeParent
    \/ CloneGitClone

ProjectSpec == ProjectInit /\ [][ProjectNext]_vars

\* ------------------------------------------------------------------------
\* provision-remote.sh as a state machine: one step per section of the
\* script, under set -euo pipefail, run again and again on one host
\* ------------------------------------------------------------------------

\* The most runs of the script on one host.
MaxRuns == 2

\* $VPS_USER.
Username == <<"d","e","p","l","o","y">>

\* The exit code of apt-get when it fails.
AptFailed == 100

\* The options the script sets, in the order of its set_ssh_option calls.
SshOptions ==
    << [key |-> <<"P","e","r","m","i","t","R","o","o","t","L","o","g","i","n">>, value |-> <<"n","o">>],
       [key |-> <<"P","a","s","s","w","o","r","d","A","u","t","h","e","n","t","i","c","a","t","i","o","n">>, value |-> <<"n","o">>],
       [key |-> <<"C","h","a","l","l","e","n","g","e","R","e","s","p","o","n","s","e","A","u","t","h","e","n","t","i","c","a","t","i","o","n">>, value |-> <<"n","o">>],
       [key |-> <<"U","s","e","D","N","S">>, value |-> <<"n","o">>],
       [key |-> <<"A","l","l","o","w","U","s","e","r","s">>, value |-> Username] >>

\* The text after the longest run of characters of one kind at its start.
dropWhile(s, Kind(_)) ==
    LET other == {i \in 1..Len(s) : ~Kind(s[i])}
    IN  IF other = {} THEN <<>> ELSE SubSeq(s, MinOf(other), Len(s))

IsHash(c) == c = "#"

\* The sed address /^[[:space:]]*#*[[:space:]]*key[[:space:]]/I: white
\* space, hashes, white space, the key in any case, one white space.
sedMatches(line, key) ==
    LET rest == dropWhile(dropWhile(dropWhile(line, IsWhitespace), IsHash), IsWhitespace)
    IN  /\ Len(rest) > Len(key)
        /\ toLowerCase(SubSeq(rest, 1, Len(key))) = toLowerCase(key)
        /\ IsWhitespace(rest[Len(key) + 1])

\* sed -i "/.../Id": the lines that stay.
sedDelete(lines, key) == SelectSeq(lines, LAMBDA line : ~sedMatches(line, key))

\* set_ssh_option key value: the three sed calls (the key as given, in
\* lower case and in upper case), then the new line at the end.
set_ssh_option(lines, key, value) ==
    Append(sedDelete(sedDelete(sedDelete(lines, key), toLowerCase(key)), key),
           key \o <<" ">> \o value)

RECURSIVE setSshOptions(_, _)
\* The calls of set_ssh_option from the k-th on.
setSshOptions(lines, k) ==
    IF k > Len(SshOptions) THEN lines
    ELSE setSshOptions(set_ssh_option(lines, SshOptions[k].key, SshOptions[k].value), k + 1)

\* The line of /etc/sudoers the script adds, and the grep for it.
SudoersLine == Username \o <<" ","A","L","L","=","(","A","L","L",")"," ","N","O","P","A","S","S","W","D",":","A","L","L">>

grepSudoers(lines) == \E k \in 1..Len(lines) : startsWith(lines[k], SudoersLine)

\* A mutation of the test below: [ -f file ] alone.
keysFileExists(keys) == keys # "absent"

\* [ -f file ] and [ -s file ] on an authorized_keys file.
keysVerified(keys) == keys # "absent" /\ keys # "empty"

\* cp -n source target || true: the target when it was there, the source
\* otherwise.
cpNoClobber(source, target) == IF target = "absent" THEN source ELSE target

\* The sshd_config files a host can come with.
SshdConfigs ==
    { << <<"#","P","e","r","m","i","t","R","o","o","t","L","o","g","i","n"," ","p","r","o","h","i","b","i","t","-","p","a","s","s","w","o","r","d">>, <<"P","a","s","s","w","o","r","d","A","u","t","h","e","n","t","i","c","a","t","i","o","n"," ","y","e","s">>,
         <<"#","U","s","e","D","N","S"," ","n","o">>, <<"S","u","b","s","y","s","t","e","m"," ","s","f","t","p"," ","/","u","s","r","/","l","i","b","/","o","p","e","n","s","s","h","/","s","f","t","p","-","s","e","r","v","e","r">> >>,
      << <<"P","E","R","M","I","T","R","O","O","T","L","O","G","I","N","\t","y","e","s">>, <<" "," ","#"," ","p","a","s","s","w","o","r","d","a","u","t","h","e","n","t","i","c","a","t","i","o","n"," ","y","e","s">>,
         <<"A","l","l","o","w","U","s","e","r","s"," ","r","o","o","t"," ","a","d","m","i","n">>, <<"C","h","a","l","l","e","n","g","e","R","e","s","p","o","n","s","e","A","u","t","h","e","n","t","i","c","a","t","i","o","n"," ","y","e","s">> >>,
      << <<"P","e","r","m","i","t","R","o","o","t","L","o","g","i","n"," ","y","e","s">>, <<"P","a","s","s","w","o","r","d","A","u","t","h","e","n","t","i","c","a","t","i","o","n","=","y","e","s">>, <<"U","s","e","D","N","S"," ","n","o">> >> }

\* The sudoers files a host can come with.
SudoersFiles ==
    { << <<"r","o","o","t"," ","A","L","L","=","(","A","L","L",":","A","L","L",")"," ","A","L","L">> >>,
      << <<"r","o","o","t"," ","A","L","L","=","(","A","L","L",":","A","L","L",")"," ","A","L","L">>, SudoersLine >> }

\* A host as it is before the first run.
ProvisionInit ==
    /\ AuditIdle
    /\ ListeningIdle
    /\ ExecIdle
    /\ ComposeIdle
    /\ LibIdle
    /\ HomeIdle
    /\ provPc = "idle"
    /\ provRuns = 0
    /\ provExit = -1
    /\ userExists \in BOOLEAN
    /\ rootKeys \in {"absent", "empty", "keys"}
    /\ userKeys \in (IF userExists THEN {"absent", "keys"} ELSE {"absent"})
    /\ sudoers \in SudoersFiles
    /\ sshdConfig \in SshdConfigs
    /\ sshBackup = <<>>
    /\ firewall = "inactive"
    /\ daemonJson \in {"absent", "custom"}
    /\ jailLocal \in {"absent", "custom"}
    /\ provTouched = <<>>
    /\ provisioned = <<>>

\* What the run did to the host is noted with the number of the run.
Touched(what) == [run |-> provRuns, what |-> what]

\* set -e: a command failed, the script ends with its exit code.
Abort(code) ==
    /\ provPc' = "exited"
    /\ provExit' = code

Proceed(next) ==
    /\ provPc' = next
    /\ UNCHANGED provExit

hostFiles == <<userExists, rootKeys, userKeys, sudoers, sshdConfig, sshBackup, firewall,
               daemonJson, jailLocal>>

\* The script is started as root.
StartRun ==
    /\ provPc \in {"idle", "exited"}
    /\ provRuns < MaxRuns
    /\ provRuns' = provRuns + 1
    /\ provPc' = "prepare"
    /\ provExit' = -1
    /\ UNCHANGED <<hostFiles, provTouched, provisioned>>
    /\ UNCHANGED besideProvision

\* LOCALE, SYSTEM UPDATE, HOSTNAME: apt-get works or fails.
Prepare ==
    /\ provPc = "prepare"
    /\ \E works \in BOOLEAN : IF works THEN Proceed("userSetup") ELSE Abort(AptFailed)
    /\ UNCHANGED <<provRuns, hostFiles, provTouched, provisioned>>
    /\ UNCHANGED besideProvision

\* USER SETUP: adduser when id fails.
UserSetup ==
    /\ provPc = "userSetup"
    /\ userExists' = TRUE
    /\ Proceed("copyKeys")
    /\ UNCHANGED <<provRuns, rootKeys, userKeys, sudoers, sshdConfig, sshBackup, firewall,
                   daemonJson, jailLocal, provTouched, provisioned>>
    /\ UNCHANGED besideProvision

\* COPY ROOT SSH KEYS TO USER: cp -n ... || true, then chmod 600 of the
\* file, which fails with exit code 1 when the file is not there.
CopyKeys ==
    /\ provPc = "copyKeys"
    /\ userKeys' = cpNoClobber(rootKeys, userKeys)
    /\ IF userKeys' = "absent" THEN Abort(1) ELSE Proceed("verifyKeys")
    /\ UNCHANGED <<provRuns, userExists, rootKeys, sudoers, sshdConfig, sshBackup, firewall,
                   daemonJson, jailLocal, provTouched, provisioned>>
    /\ UNCHANGED besideProvision

\* VERIFY SSH KEY SETUP BEFORE HARDENING: exit 1 unless the file is there
\* and is not empty.
VerifyKeys ==
    /\ provPc = "verifyKeys"
    /\ IF keysVerified(userKeys)
       THEN Proceed("sudoers")
       ELSE Abort(1)
    /\ UNCHANGED <<provRuns, hostFiles, provTouched, provisioned>>
    /\ UNCHANGED besideProvision

\* PASSWORDLESS SUDO: grep -q for the line || echo it to the end.
PasswordlessSudo ==
    /\ provPc = "sudoers"
    /\ IF grepSudoers(sudoers)
       THEN UNCHANGED <<sudoers, provTouched>>
       ELSE /\ sudoers' = Append(sudoers, SudoersLine)
            /\ provTouched' = Append(provTouched, Touched("sudoers"))
    /\ Proceed("hardenSsh")
    /\ UNCHANGED <<provRuns, userExists, rootKeys, userKeys, sshdConfig, sshBackup, firewall,
                   daemonJson, jailLocal, provisioned>>
    /\ UNCHANGED besideProvision

\* SSH HARDENING: the backup, then the five set_ssh_option calls.
HardenSsh ==
    /\ provPc = "hardenSsh"
    /\ sshBackup' = sshdConfig
    /\ sshdConfig' = setSshOptions(sshdConfig, 1)
    /\ provTouched' = Append(provTouched, Touched("sshd_config"))
    /\ Proceed("testConfig")
    /\ UNCHANGED <<provRuns, userExists, rootKeys, userKeys, sudoers, firewall,
                   daemonJson, jailLocal, provisioned>>
    /\ UNCHANGED besideProvision

\* sshd -t: restart when it passes, cp of the backup over the file when it
\* does not.
TestSshConfig ==
    /\ provPc = "testConfig"
    /\ \E passes \in BOOLEAN :
          IF passes
          THEN /\ provTouched' = provTouched \o <<Touched("sshd -t passed"), Touched("restart sshd")>>
               /\ UNCHANGED sshdConfig
          ELSE /\ provTouched' = provTouched \o <<Touched("sshd -t failed"), Touched("restore sshd_config")>>
               /\ sshdConfig' = sshBackup
    /\ Proceed("firewall")
    /\ UNCHANGED <<provRuns, userExists, rootKeys, userKeys, sudoers, sshBackup, firewall,
                   daemonJson, jailLocal, provisioned>>
    /\ UNCHANGED besideProvision

\* FIREWALL: ufw defaults, allow OpenSSH, enable.
ConfigureFirewall ==
    /\ provPc = "firewall"
    /\ firewall' = "active"
    /\ provTouched' = Append(provTouched, Touched("ufw"))
    /\ Proceed("packages")
    /\ UNCHANGED <<provRuns, userExists, rootKeys, userKeys, sudoers, sshdConfig, sshBackup,
                   daemonJson, jailLocal, provisioned>>
    /\ UNCHANGED besideProvision

\* TIMEZONE & NTP to DOCKER INSTALL: apt-get works or fails.
InstallPackages ==
    /\ provPc = "packages"
    /\ \E works \in BOOLEAN : IF works THEN Proceed("dockerHardening") ELSE Abort(AptFailed)
    /\ UNCHANGED <<provRuns, hostFiles, provTouched, provisioned>>
    /\ UNCHANGED besideProvision

\* DOCKER HARDENING: daemon.json is written when it is not there.
DockerHardening ==
    /\ provPc = "dockerHardening"
    /\ IF daemonJson = "absent"
       THEN /\ daemonJson' = "script"
            /\ provTouched' = Append(provTouched, Touched("daemon.json"))
       ELSE UNCHANGED <<daemonJson, provTouched>>
    /\ Proceed("fail2ban")
    /\ UNCHANGED <<provRuns, userExists, rootKeys, userKeys, sudoers, sshdConfig, sshBackup,
                   firewall, jailLocal, provisioned>>
    /\ UNCHANGED besideProvision

\* FAIL2BAN: jail.local is written when it is not there.
ConfigureFail2ban ==
    /\ provPc = "fail2ban"
    /\ IF jailLocal = "absent"
       THEN /\ jailLocal' = "script"
            /\ provTouched' = Append(provTouched, Touched("jail.local"))
       ELSE UNCHANGED <<jailLocal, provTouched>>
    /\ Proceed("finish")
    /\ UNCHANGED <<provRuns, userExists, rootKeys, userKeys, sudoers, sshdConfig, sshBackup,
                   firewall, daemonJson, provisioned>>
    /\ UNCHANGED besideProvision

\* FINISH: the script went through; the host reboots.
Finish ==
    /\ provPc = "finish"
    /\ provPc' = "exited"
    /\ provExit' = 0
    /\ provisioned' = IF provisioned = <<>>
                      THEN << [run |-> provRuns, sshdConfig |-> sshdConfig, sudoers |-> sudoers,
                               daemonJson |-> daemonJson, jailLocal |-> jailLocal] >>
                      ELSE provisioned
    /\ UNCHANGED <<provRuns, hostFiles, provTouched>>
    /\ UNCHANGED besideProvision

ProvisionNext ==
    \/ StartRun
    \/ Prepare
    \/ UserSetup
    \/ CopyKeys
    \/ VerifyKeys
    \/ PasswordlessSudo
    \/ HardenSsh
    \/ TestSshConfig
    \/ ConfigureFirewall
    \/ InstallPackages
    \/ DockerHardening
    \/ ConfigureFail2ban
    \/ Finish

ProvisionSpec == ProvisionInit /\ [][ProvisionNext]_vars

\* ------------------------------------------------------------------------
\* Properties of the audit run
\* ------------------------------------------------------------------------

\* What a step adds to the three lists of the results.
addedPassed == Len(results'.passedItems) - Len(results.passedItems)

addedFailed == Len(results'.failedItems) - Len(results.failedItems)

addedWarned == Len(results'.warnedItems) - Len(results.warnedItems)

addedEntries == addedPassed + addedFailed + addedWarned

\* The check lines a step prints, in order.
newLines == SubSeq(printed', Len(printed) + 1, Len(printed'))

\* The passed messages a step adds.
newPassedItems ==
    SubSeq(results'.passedItems, Len(results.passedItems) + 1, Len(results'.passedItems))

IsPrefix(s, t) == Len(s) <= Len(t) /\ SubSeq(t, 1, Len(s)) = s

Contains(seq, x) == \E i \in 1..Len(seq) : seq[i] = x

\* The three verdict messages and the header of the summary.
SuccessLine == <<"SUCCESS", Msg("All security checks passed!", <<>>)>>

AdvisoryLine == <<"INFO", Msg("All critical checks passed, but some warnings to review.", <<>>)>>

AlertLine == <<"ALERT", Msg("Some security checks failed. Please review and fix.", <<>>)>>

VerdictCount ==
    Cardinality({i \in 1..Len(printed) : printed[i] \in {SuccessLine, AdvisoryLine, AlertLine}})

SummaryPrinted == Contains(printed, <<"SUMMARY", Msg("Security audit completed", <<>>)>>)

\* The steps of the eight probes, and the command each probe issues first, in
\* the order the probes are to run.
ProbeSteps == {"sshHardening", "firewall", "fail2ban", "unattended",
               "updates", "docker", "timezone", "listening"}

ProbeOrder == <<"sshCheckScript", "sudo ufw status verbose", "fail2banScript",
                "unattendedScript", "apt list --upgradable", "dockerScript",
                "timezoneScript", "sudo ss -tlnpen">>

StepAfter == [sshHardening |-> "firewall", firewall |-> "fail2ban",
              fail2ban |-> "unattended", unattended |-> "updates",
              updates |-> "docker", docker |-> "timezone",
              timezone |-> "listening", listening |-> "summary"]

IsProbeCommand(c) == Contains(ProbeOrder, c)

\* The probes' first commands among the commands issued, in order.
ProbeCommands == SelectSeq(cmds, IsProbeCommand)

\* The step taken last received no data: its command did not succeed and
\* returned an empty stdout.
NoDataReceived == ~probeResults'[1].success /\ probeResults'[1].stdout = <<>>

\* "no" in any letter case.
NoAnyCase == {<<"n","o">>, <<"N","o">>, <<"n","O">>, <<"N","O">>}

\* C1: a run that reaches the final verdict with at least one fail entry
\* exits with code 1 and prints the alert, whatever the numbers of pass and
\* warn entries.
FailedAuditExitsOne ==
    [][pc = "verdict" /\ Len(results.failedItems) >= 1
         => /\ exitCode' = 1
            /\ pc' = "exited"
            /\ printed' = Append(printed, AlertLine)]_vars

\* A run ended by the alert with exit code 1, having recorded fails next to
\* several passes and warns.
FailedAuditWitness ==
    /\ pc = "exited"
    /\ exitCode = 1
    /\ SummaryPrinted
    /\ Len(results.failedItems) >= 1
    /\ Len(results.passedItems) >= 5
    /\ Len(results.warnedItems) >= 2
    /\ printed[Len(printed)] = AlertLine

\* C2: a run that reaches the final verdict with zero fail entries exits
\* with code 0 and prints the advisory when a warn entry was recorded, the
\* success message when none was, never the alert; a run prints exactly one of
\* the three verdict messages, at its verdict, and none before.
CleanAuditExitsZero ==
    /\ [][pc = "verdict" /\ Len(results.failedItems) = 0
            => /\ exitCode' = 0
               /\ pc' = "exited"
               /\ printed' = Append(printed,
                                    IF Len(results.warnedItems) > 0
                                    THEN AdvisoryLine ELSE SuccessLine)]_vars
    /\ [](VerdictCount = IF pc = "exited" /\ SummaryPrinted THEN 1 ELSE 0)

\* A run without fails and with warns, ended by the advisory with exit code 0.
CleanAuditWitness ==
    /\ pc = "exited"
    /\ exitCode = 0
    /\ Len(results.failedItems) = 0
    /\ Len(results.warnedItems) >= 1
    /\ printed[Len(printed)] = AdvisoryLine
    /\ VerdictCount = 1

\* C3: the connectivity check is the first remote command of a run; when it
\* fails the run ends at once with exit code 1, having issued no other
\* command and printed no summary, and nothing happens after the exit.
ConnectivityFirstAndFatal ==
    /\ [](cmds # <<>> => cmds[1] = "echo OK")
    /\ [][pc = "connectivity" /\ ~probeResults'[1].success
            => /\ pc' = "exited"
               /\ exitCode' = 1
               /\ cmds' = <<"echo OK">>
               /\ ~SummaryPrinted']_vars
    /\ [][pc # "exited"]_vars

\* A run ended by a failed connectivity check.
ConnectivityFailedWitness ==
    /\ pc = "exited"
    /\ exitCode = 1
    /\ cmds = <<"echo OK">>
    /\ ~probeResults[1].success
    /\ Len(results.failedItems) = 1
    /\ ~SummaryPrinted

\* C4: after a successful connectivity check the eight probes run once each
\* in the fixed order: every probe step is followed by the next one whatever
\* it received, the probes' commands issued so far are always a prefix of the
\* order, and the run goes on to the summary and the verdict.
ProbesRunInOrder ==
    /\ [](IsPrefix(ProbeCommands, ProbeOrder))
    /\ [][(pc \in ProbeSteps) => (pc' = StepAfter[pc])]_vars
    /\ (pc = "sshHardening")
          ~> (/\ pc = "exited"
              /\ ProbeCommands = ProbeOrder
              /\ SummaryPrinted
              /\ VerdictCount = 1)

\* A run that went through all the probes to its verdict although the SSH
\* snapshot and the listening services could not be retrieved.
ProbesRunInOrderWitness ==
    /\ pc = "exited"
    /\ ProbeCommands = ProbeOrder
    /\ SummaryPrinted
    /\ VerdictCount = 1
    /\ Contains(results.failedItems, Msg("Could not retrieve SSH configuration", <<>>))
    /\ Contains(results.warnedItems, Msg("Could not retrieve listening services", <<>>))

\* C5: each of the eight probes, when its command returns no data (not
\* successful, empty stdout), adds exactly one entry, a fail or a warn, and no
\* pass.
ProbeFailureIsOneFailOrWarn ==
    [][(pc \in ProbeSteps) /\ NoDataReceived
         => addedEntries = 1 /\ addedPassed = 0]_vars

\* C6: the three counters equal the lengths of the three lists in every
\* state, and a step only appends to the lists and only increments the
\* counters.
CountersMatchLists ==
    /\ [](/\ results.passed = Len(results.passedItems)
          /\ results.failed = Len(results.failedItems)
          /\ results.warnings = Len(results.warnedItems))
    /\ [][/\ IsPrefix(results.passedItems, results'.passedItems)
          /\ IsPrefix(results.failedItems, results'.failedItems)
          /\ IsPrefix(results.warnedItems, results'.warnedItems)
          /\ results'.passed >= results.passed
          /\ results'.failed >= results.failed
          /\ results'.warnings >= results.warnings]_vars

\* A finished run with entries of the three kinds, several of them warns.
CountersMatchListsWitness ==
    /\ pc = "exited"
    /\ results.passed >= 2
    /\ results.failed >= 2
    /\ results.warnings >= 2
    /\ results.warnings = Len(results.warnedItems)

\* C7: the fail2ban probe records exactly one fail and no pass when the
\* script answers INACTIVE; when it answers ACTIVE it records one pass, and
\* one warn besides when the answer holds NO_JAIL.
Fail2banInactiveFails ==
    [][pc = "fail2ban"
         => /\ probeResults'[1].stdout = <<"I","N","A","C","T","I","V","E">>
                => addedFailed = 1 /\ addedPassed = 0
            /\ startsWith(probeResults'[1].stdout, <<"A","C","T","I","V","E">>)
                => /\ addedPassed = 1
                   /\ addedFailed = 0
                   /\ addedWarned = IF includes(probeResults'[1].stdout, <<"N","O","_","J","A","I","L">>)
                                    THEN 1 ELSE 0]_vars

\* C8: the Docker probe records exactly one warn, no pass and no fail, and
\* issues no groups query, when the script answers NOT_INSTALLED; it records
\* a "Docker installed" pass only when the script answers INSTALLED.
DockerNotInstalledWarns ==
    [][pc = "docker"
         => /\ probeResults'[1].stdout = <<"N","O","T","_","I","N","S","T","A","L","L","E","D">>
                => /\ addedWarned = 1
                   /\ addedPassed = 0
                   /\ addedFailed = 0
                   /\ cmds' = Append(cmds, "dockerScript")
            /\ (\E k \in 1..Len(newPassedItems) :
                   newPassedItems[k][1] \in {"Docker installed", "Docker installed (version: )"})
                => startsWith(probeResults'[1].stdout, <<"I","N","S","T","A","L","L","E","D">>)]_vars

\* C9: the SSH hardening probe, when the snapshot is retrieved, records five
\* entries, one per field in order: permitRootLogin and passwordAuthentication
\* pass when the value is "no" in any letter case and fail otherwise;
\* challengeResponseAuthentication and useDNS pass when the value is "no" in
\* any letter case (or empty) and warn otherwise; allowUsers passes when it is
\* the configured user, compared as written, and warns otherwise.  At most two
\* fails, which come from the first two fields.
SshHardeningFiveEntries ==
    [][pc = "sshHardening" /\ probeResults'[1].success
         => LET sshConfig == parseSSHConfig(probeResults'[1].stdout)
            IN  /\ addedEntries = 5
                /\ Len(newLines) = 5
                /\ newLines[1][1] = IF sshConfig.permitRootLogin \in NoAnyCase
                                    THEN "OK" ELSE "FAIL"
                /\ newLines[2][1] = IF sshConfig.passwordAuthentication \in NoAnyCase
                                    THEN "OK" ELSE "FAIL"
                /\ newLines[3][1] = IF sshConfig.challengeResponseAuthentication
                                           \in NoAnyCase \cup {<<>>}
                                    THEN "OK" ELSE "WARN"
                /\ newLines[4][1] = IF sshConfig.allowUsers = config.vpsUser
                                    THEN "OK" ELSE "WARN"
                /\ newLines[5][1] = IF sshConfig.useDNS \in NoAnyCase
                                    THEN "OK" ELSE "WARN"
                /\ addedFailed <= 2
                /\ addedFailed = Cardinality({k \in 1..2 : newLines[k][1] = "FAIL"})]_vars

\* The snapshot held NO in upper case for permitRootLogin and the probe
\* recorded the pass for it.
SshHardeningUpperCaseWitness ==
    /\ pc = "firewall"
    /\ probeResults[1].success
    /\ parseSSHConfig(probeResults[1].stdout).permitRootLogin = <<"N","O">>
    /\ parseSSHConfig(probeResults[1].stdout).useDNS = <<"N","O">>
    /\ Contains(results.passedItems, Msg("Root login disabled", <<>>))
    /\ Contains(results.passedItems, Msg("UseDNS disabled (faster connections)", <<>>))
    /\ Len(results.passedItems) + Len(results.failedItems) + Len(results.warnedItems) = 6

\* C9 as the specification words it: each of the four yes/no fields passes
\* only when its value is exactly "no", every other value failing or warning.
SshHardeningExactNo ==
    [][pc = "sshHardening" /\ probeResults'[1].success
         => LET sshConfig == parseSSHConfig(probeResults'[1].stdout)
            IN  /\ addedEntries = 5
                /\ Len(newLines) = 5
                /\ newLines[1][1] = IF sshConfig.permitRootLogin = <<"n","o">>
                                    THEN "OK" ELSE "FAIL"
                /\ newLines[2][1] = IF sshConfig.passwordAuthentication = <<"n","o">>
                                    THEN "OK" ELSE "FAIL"
                /\ newLines[3][1] = IF sshConfig.challengeResponseAuthentication
                                           \in {<<"n","o">>, <<>>}
                                    THEN "OK" ELSE "WARN"
                /\ newLines[4][1] = IF sshConfig.allowUsers = config.vpsUser
                                    THEN "OK" ELSE "WARN"
                /\ newLines[5][1] = IF sshConfig.useDNS = <<"n","o">>
                                    THEN "OK" ELSE "WARN"
                /\ addedFailed <= 2]_vars

\* The normalized ufw output shows the firewall active: "status:", any white
\* space, "active", in any letter case.
ShowsActive(ufwStatus) ==
    LET low == toLowerCase(ufwStatus)
    IN  \E i \in 0..Len(low), n \in 0..Len(low) :
            /\ i + 7 + n + 6 <= Len(low)
            /\ SubSeq(low, i + 1, i + 7) = <<"s","t","a","t","u","s",":">>
            /\ \A k \in (i + 8)..(i + 7 + n) : IsWhitespace(low[k])
            /\ SubSeq(low, i + 8 + n, i + 13 + n) = <<"a","c","t","i","v","e">>

MentionsOpenSSH(ufwStatus) == includes(toLowerCase(ufwStatus), <<"o","p","e","n","s","s","h">>)

\* C10: the firewall probe, when the normalized ufw output shows the
\* firewall active, records the pass for the firewall and then exactly one
\* entry for the SSH rule, a pass when the output mentions "openssh" in any
\* letter case and a fail otherwise; when the output does not show it active
\* the probe records exactly one fail and nothing else.
FirewallActiveThenSshRule ==
    [][pc = "firewall"
         => LET ufwStatus == ufwStatusOf(probeResults'[1])
            IN  IF ShowsActive(ufwStatus)
                THEN /\ addedEntries = 2
                     /\ newPassedItems[1] = Msg("UFW firewall is active", <<>>)
                     /\ IF MentionsOpenSSH(ufwStatus)
                        THEN addedPassed = 2 /\ addedFailed = 0
                        ELSE addedPassed = 1 /\ addedFailed = 1
                ELSE addedEntries = 1 /\ addedFailed = 1]_vars

\* The firewall answered active in an unusual spelling ("status:  active")
\* and the probe recorded the two passes.
FirewallActiveWitness ==
    /\ pc = "fail2ban"
    /\ ShowsActive(ufwStatusOf(probeResults[1]))
    /\ ~includes(ufwStatusOf(probeResults[1]), <<"S","t","a","t","u","s",":"," ","a","c","t","i","v","e">>)
    /\ MentionsOpenSSH(ufwStatusOf(probeResults[1]))
    /\ Contains(results.passedItems, Msg("UFW firewall is active", <<>>))
    /\ Contains(results.passedItems, Msg("OpenSSH allowed in firewall", <<>>))
    /\ Len(results.failedItems) = 0


\* ------------------------------------------------------------------------
\* Properties of the listening ports parser
\* ------------------------------------------------------------------------

\* The bind addresses that stand for all interfaces.
WildcardBinds == { <<"0",".","0",".","0",".","0">>, <<":",":">>, <<"*">> }

\* The record the iteration just taken pushed on allPorts.
pushedRecord == listenAcc'.allPorts[Len(listenAcc'.allPorts)]

\* A record that is to count as exposed: bound to all interfaces, on a port
\* other than 22, 53 and 123.
ShouldBeExposed(r) == r.bind \in WildcardBinds /\ parseInt(r.port) \notin {22, 53, 123}

\* The (protocol, port) pairs of the entries of an exposed map.
ExposedPairs(exposedMap) ==
    { <<exposedMap[k].protocol, exposedMap[k].port>> : k \in 1..Len(exposedMap) }

\* C11: parseListeningPorts takes a parsed LISTEN record for exposed exactly
\* when its bind address is 0.0.0.0, :: or * and its port is not 22, 53 or
\* 123: such a record is in the exposed set after its line, under its protocol
\* and port, and a record bound to a loopback address or to any other address,
\* or on one of the three ports, leaves the exposed set as it was, as does a
\* line that yields no record; every entry of the exposed set was made from a
\* record bound to all interfaces on another port than the three.
ExposedIffWildcardAndUnexpected ==
    /\ [][IF Len(listenAcc'.allPorts) = Len(listenAcc.allPorts) + 1
          THEN /\ ShouldBeExposed(pushedRecord)
                    => <<pushedRecord.protocol, parseInt(pushedRecord.port)>>
                          \in ExposedPairs(listenAcc'.exposedMap)
               /\ ~ShouldBeExposed(pushedRecord)
                    => listenAcc'.exposedMap = listenAcc.exposedMap
               /\ listenAcc'.exposedMap # listenAcc.exposedMap
                    => /\ Len(listenAcc'.exposedMap) = Len(listenAcc.exposedMap) + 1
                       /\ SubSeq(listenAcc'.exposedMap, 1, Len(listenAcc.exposedMap))
                            = listenAcc.exposedMap
                       /\ listenAcc'.exposedMap[Len(listenAcc'.exposedMap)].bindAddress
                            = pushedRecord.bind
                       /\ listenAcc'.exposedMap[Len(listenAcc'.exposedMap)].process
                            = pushedRecord.process
          ELSE listenAcc' = listenAcc]_vars
    /\ [](\A k \in 1..Len(listenAcc.exposedMap) :
             /\ listenAcc.exposedMap[k].bindAddress \in WildcardBinds
             /\ listenAcc.exposedMap[k].port \notin {22, 53, 123}
             /\ \E j \in 1..Len(listenAcc.allPorts) :
                   /\ listenAcc.allPorts[j].bind = listenAcc.exposedMap[k].bindAddress
                   /\ listenAcc.allPorts[j].protocol = listenAcc.exposedMap[k].protocol
                   /\ parseInt(listenAcc.allPorts[j].port) = listenAcc.exposedMap[k].port)

\* A listing with a socket on 0.0.0.0:80, one on 127.0.0.1:5432 and one on
\* 10.0.0.5:9000 has been parsed: three records, one of them exposed.
ExposedIffWitness ==
    /\ listenAt = 3
    /\ Len(listenAcc.allPorts) = 3
    /\ {listenAcc.allPorts[k].bind : k \in 1..3} = { <<"0",".","0",".","0",".","0">>, <<"1","2","7",".","0",".","0",".","1">>, <<"1","0",".","0",".","0",".","5">> }
    /\ ExposedPairs(listenAcc.exposedMap) = { << <<"T","C","P">>, 80 >> }

\* The (protocol, port) pairs of the records parsed so far that are to count
\* as exposed.
PairsToExpose ==
    { <<listenAcc.allPorts[j].protocol, parseInt(listenAcc.allPorts[j].port)>> :
        j \in {i \in 1..Len(listenAcc.allPorts) : ShouldBeExposed(listenAcc.allPorts[i])} }

\* C12: the exposed set holds at most one record per (protocol, port) pair:
\* a line whose protocol and port are already in the set leaves the set as it
\* was (the first line's record stays), and the count the warn message of the
\* audit states is the number of distinct exposed (protocol, port) pairs (a
\* pass is recorded when there is none).
ExposedOncePerProtocolPort ==
    /\ [](\A j, k \in 1..Len(listenAcc.exposedMap) :
             (<<listenAcc.exposedMap[j].protocol, listenAcc.exposedMap[j].port>>
                = <<listenAcc.exposedMap[k].protocol, listenAcc.exposedMap[k].port>>)
               => j = k)
    /\ [](ExposedPairs(listenAcc.exposedMap) = PairsToExpose)
    /\ [][(/\ Len(listenAcc'.allPorts) = Len(listenAcc.allPorts) + 1
           /\ <<pushedRecord.protocol, parseInt(pushedRecord.port)>>
                 \in ExposedPairs(listenAcc.exposedMap))
            => listenAcc'.exposedMap = listenAcc.exposedMap]_vars
    /\ []((listenChecks # <<>> /\ Len(listenLines) > 0)
            => /\ Len(listenChecks) = 1
               /\ IF PairsToExpose = {}
                  THEN listenChecks[1].type = "pass"
                  ELSE /\ listenChecks[1].type = "warn"
                       /\ listenChecks[1].message[1]
                            = " internet-accessible service(s) listening on ports:"
                       /\ IsPrefix(numberToString(Cardinality(PairsToExpose)) \o <<"\n">>,
                                   listenChecks[1].message[2]))

\* Two sockets on port 80 (nginx on 0.0.0.0, node on [::]) and one on *:8080
\* were parsed: the set holds port 80 once, with nginx, and the message
\* counts two services.
ExposedOnceWitness ==
    /\ listenChecks # <<>>
    /\ Len(listenAcc.allPorts) = 3
    /\ Len(listenAcc.exposedMap) = 2
    /\ listenAcc.exposedMap[1].port = 80
    /\ listenAcc.exposedMap[1].process = <<"n","g","i","n","x">>
    /\ listenAcc.allPorts[2].process = <<"n","o","d","e">>
    /\ listenAcc.exposedMap[2].port = 8080
    /\ listenChecks[1].type = "warn"
    /\ IsPrefix(<<"2","\n">>, listenChecks[1].message[2])

\* ------------------------------------------------------------------------
\* Properties of compose add
\* ------------------------------------------------------------------------

\* The remote commands that create or change a file or a directory.
MutatingCommands == {"mkdir -p", "cp", "cat >"}

NoMutationIssued(commands) ==
    \A k \in 1..Len(commands) : commands[k].run \notin MutatingCommands

\* The type argument names no service of the catalog.
UnknownType == toLowerCase(addArgs.serviceType) \notin { <<"b","u","n">>, <<"m","y","s","q","l">> }

\* The step taken ends the invocation with exit code 1, no mutating command
\* issued and the remote host as it was.
AbortsUntouched ==
    /\ addPc' = "exited"
    /\ addExit' = 1
    /\ NoMutationIssued(addCmds')
    /\ remoteVars' = remoteVars

\* C13: compose add enforces its preconditions before any mutation: the step
\* that finds the project directory missing, the one that finds the compose
\* file missing and the one that meets a service type other than bun and
\* mysql each end the invocation with exit code 1, no mkdir, cp or upload
\* having been issued in it; up to these steps no such command is issued, an
\* invocation with an unknown type never issues one, and the remote host
\* changes only in a step that issues one.
PreconditionsBeforeMutation ==
    /\ [][(addPc = "dirExists" /\ projectDir \notin remoteDirs) => AbortsUntouched]_vars
    /\ [][(addPc = "fileExists" /\ composeFile \notin DOMAIN remoteFiles) => AbortsUntouched]_vars
    /\ [][(addPc = "serviceExists" /\ UnknownType) => AbortsUntouched]_vars
    /\ [](addPc \in {"composeHome", "dirExists", "fileExists", "serviceExists"}
            => NoMutationIssued(addCmds))
    /\ [](UnknownType => NoMutationIssued(addCmds) /\ addExit # 0)
    /\ [][remoteVars' # remoteVars
            => /\ addCmds' # <<>>
               /\ Len(addCmds') = Len(addCmds) + 1
               /\ addCmds'[Len(addCmds')].run \in MutatingCommands]_vars

\* compose add pme redis db: the directory and the file were found, grep
\* found no service db, and the invocation ended with exit code 1 at the
\* unknown type, the remote host untouched.
PreconditionsWitness ==
    /\ addPc = "exited"
    /\ addExit = 1
    /\ addArgs.serviceType = <<"r","e","d","i","s">>
    /\ Len(addCmds) = 4
    /\ addCmds[2].result.success
    /\ addCmds[3].result.success
    /\ addCmds[4].run = "grep -q"
    /\ addCmds[4].result.exitCode = 1
    /\ Len(addPrinted) = 3
    /\ addPrinted[2][1] = "ERROR"

\* The number of lines of a text that start a service of the alias: two
\* spaces, the alias and a colon.
serviceKeyCount(text, alias) ==
    LET lines == split(text, "\n")
    IN  Cardinality({k \in 1..Len(lines) : startsWith(lines[k], <<" "," ">> \o alias \o <<":">>)})

\* The invocation has gone past the check of the alias and goes on to add
\* the service.
PastAliasCheck == addPc \in {"mkdir", "getBunService", "fetch", "backup", "upload"}

\* C14: compose add never adds an alias that is already a service of the
\* remote compose document: an invocation goes past the check of the alias
\* (on to the backup and the upload) only when no line of the document starts
\* a service of that alias, and every compose document on the remote host
\* holds each alias at most once as a service key.
NoAliasAddedTwice ==
    /\ PastAliasCheck => serviceKeyCount(remoteFiles[composeFile], addArgs.alias) = 0
    /\ \A p \in DOMAIN remoteFiles : \A a \in AliasNames \ {<<>>} :
          serviceKeyCount(remoteFiles[p], a) <= 1

\* C15: whenever compose add overwrites the remote compose file, a backup of
\* that file with exactly the content the file had before the edit is at the
\* backup path of the invocation: the step that uploads the edited document
\* is taken only after the copy to the backup path was made.
BackupBeforeUpload ==
    [][(/\ addPc = "upload"
        /\ remoteFiles'[composeFile] # remoteFiles[composeFile])
         => /\ backupFile \in DOMAIN remoteFiles
            /\ remoteFiles[backupFile] = remoteFiles[composeFile]
            /\ \E k \in 1..Len(addCmds) :
                  /\ addCmds[k].run = "cp"
                  /\ addCmds[k].path = backupFile
                  /\ addCmds[k].result.success]_vars

\* A line that opens a top-level section of a document: it is not blank, not
\* indented and not a comment.
isTopLevelKey(line) == trim(line) # <<>> /\ line[1] # " " /\ line[1] # "#"

\* The lines of the top-level section a key line opens, up to the next
\* top-level key, the blank ones left out; no line when the key is absent.
topLevelSection(text, keyLine) ==
    LET lines  == split(text, "\n")
        starts == {k \in 1..Len(lines) : lines[k] = keyLine}
        from   == MinOf(starts)
        ends   == {k \in (from + 1)..Len(lines) : isTopLevelKey(lines[k])}
        to     == IF ends = {} THEN Len(lines) ELSE MinOf(ends) - 1
        keep   == ascending({k \in (from + 1)..to : trim(lines[k]) # <<>>})
    IN  IF starts = {} THEN <<>> ELSE [k \in 1..Len(keep) |-> lines[keep[k]]]

\* The document after equals the document before with one volume added for
\* the alias: the top-level volumes section has every line it had and one
\* more, `  <alias>_data:`, and the services section begins with the lines
\* it had, in their order.
VolumeAdded(before, after, alias) ==
    LET volumesBefore  == topLevelSection(before, <<"v","o","l","u","m","e","s",":">>)
        volumesAfter   == topLevelSection(after, <<"v","o","l","u","m","e","s",":">>)
        servicesBefore == topLevelSection(before, <<"s","e","r","v","i","c","e","s",":">>)
        servicesAfter  == topLevelSection(after, <<"s","e","r","v","i","c","e","s",":">>)
        entry          == <<" "," ">> \o alias \o <<"_","d","a","t","a",":">>
    IN  /\ Len(volumesAfter) = Len(volumesBefore) + 1
        /\ {volumesAfter[k] : k \in 1..Len(volumesAfter)}
             = {volumesBefore[k] : k \in 1..Len(volumesBefore)} \cup {entry}
        /\ \A k \in 1..Len(volumesBefore) : volumesBefore[k] # entry
        /\ IsPrefix(servicesBefore, servicesAfter)

\* C16: after compose add of a mysql service with alias A, the document to
\* upload has in its top-level volumes section exactly one new entry A_data
\* with an empty value, every volume entry it had before, and every line of
\* the service blocks it had before, unchanged and in place.
MysqlAddsOneTopLevelVolume ==
    (/\ addPc = "upload"
     /\ toLowerCase(addArgs.serviceType) = <<"m","y","s","q","l">>
     /\ serviceKeyCount(composeContent, addArgs.alias) = 0)
      => VolumeAdded(composeContent, newContent, addArgs.alias)

\* The document has a top-level services key.
hasServicesKey(text) ==
    LET lines == split(text, "\n")
    IN  \E k \in 1..Len(lines) : startsWith(lines[k], <<"s","e","r","v","i","c","e","s",":">>)

\* The document was fetched in the invocation under way.
Fetched == \E k \in 1..Len(addCmds) : addCmds[k].run = "cat" /\ addCmds[k].result.success

\* The invocation reported that the service was added.
ReportedAdded == \E k \in 1..Len(addPrinted) : addPrinted[k][1] = "OK"

\* C17: compose add takes a malformed compose document for fatal: an
\* invocation that fetched a document without a top-level services key
\* never goes on to the upload, and it ends with a non-zero exit code and an
\* error message, the upload not issued and no success reported.
MalformedDocumentIsFatal ==
    (Fetched /\ ~hasServicesKey(composeContent))
      => /\ addPc # "upload"
         /\ \A k \in 1..Len(addCmds) : addCmds[k].run # "cat >"
         /\ ~ReportedAdded
         /\ addPc = "exited"
              => /\ addExit # 0
                 /\ \E k \in 1..Len(addPrinted) : addPrinted[k][1] = "ERROR"

\* The remote commands issued after the checks of the preconditions.
CommandsAfterChecks == {"mkdir -p", "id -u", "id -g", "cat", "cp", "cat >"}

\* C18: compose add ends with exit code 1 and without the success message
\* whenever a remote command it issued after the checks of the preconditions
\* failed (the mkdir of the app directory, the fetch of the document, the
\* backup copy, the upload); it reports the service added and ends with exit
\* code 0 only when the upload succeeded.
FailedCommandIsFatal ==
    addPc = "exited"
      => /\ (\E k \in 1..Len(addCmds) :
                /\ addCmds[k].run \in CommandsAfterChecks
                /\ ~addCmds[k].result.success)
              => (addExit = 1 /\ ~ReportedAdded)
         /\ (addExit = 0 \/ ReportedAdded)
              => \E k \in 1..Len(addCmds) :
                    addCmds[k].run = "cat >" /\ addCmds[k].result.success

\* The paths of the backups on the remote host.
isBackupPath(path) == startsWith(path, <<"/","t","m","p","/","d","o","c","k","e","r","-","c","o","m","p","o","s","e",".","b","a","c","k","u","p",".">>)

\* C19: a backup written by a compose add is never deleted, overwritten or
\* changed by a later operation: every step leaves every backup file on the
\* remote host in place with the content it has.
BackupsNeverOverwritten ==
    [][\A p \in DOMAIN remoteFiles :
          isBackupPath(p) => (p \in DOMAIN remoteFiles' /\ remoteFiles'[p] = remoteFiles[p])]_vars

\* ------------------------------------------------------------------------
\* Properties of the remote command runner
\* ------------------------------------------------------------------------

\* C20: sshExec never raises: whatever the ssh process came to, the call
\* returns a result with the four fields stdout, stderr, exitCode and
\* success, in which success is true exactly when exitCode is 0; a process
\* that exited with a non-zero code gives success false with that code, and
\* a process that could not be spawned gives success false, exit code 1, an
\* empty stdout and the text of the spawn error in stderr.
SshExecAlwaysReturnsResult ==
    /\ [][execPc = "called" => execPc' = "returned"]_vars
    /\ [](execPc = "returned"
            => /\ DOMAIN execResult = {"stdout", "stderr", "exitCode", "success"}
               /\ execResult.success \in BOOLEAN
               /\ execResult.success <=> (execResult.exitCode = 0)
               /\ execOutcome.spawned
                    => /\ execResult.exitCode = execOutcome.exitCode
                       /\ execOutcome.exitCode # 0 => ~execResult.success
               /\ ~execOutcome.spawned
                    => /\ ~execResult.success
                       /\ execResult.exitCode = 1
                       /\ execResult.stdout = <<>>
                       /\ execResult.stderr = execOutcome.error
                       /\ execResult.stderr # <<>>)

\* The ssh executable was not found: the call returned the result made in
\* the catch block.
SshExecSpawnFailureWitness ==
    /\ execPc = "returned"
    /\ ~execOutcome.spawned
    /\ execResult.exitCode = 1
    /\ ~execResult.success
    /\ execResult.stderr = <<"E","x","e","c","u","t","a","b","l","e"," ","n","o","t"," ","f","o","u","n","d"," ","i","n"," ","$","P","A","T","H",":"," ","\"","s","s","h","\"">>

\* ------------------------------------------------------------------------
\* Properties of the configuration loader
\* ------------------------------------------------------------------------

\* The five settings and the fields of the configuration they fill.
SettingKeys == { <<"V","P","S","_","H","O","S","T">>, <<"V","P","S","_","U","S","E","R">>, <<"V","P","S","_","H","O","S","T","N","A","M","E">>, <<"V","P","S","_","T","I","M","E","Z","O","N","E">>, <<"V","P","S","_","S","S","H","_","P","U","B","K","E","Y">> }

\* What each of the four .env files defines, read by hand: a name written
\* twice has the value written last, quotes around a value are not part of
\* it, a name written with nothing after the "=" is not defined.
EnvFileMeanings ==
    << (<<"V","P","S","_","H","O","S","T">> :> <<"f","i","l","e",".","e","x","a","m","p","l","e">>) @@ (<<"V","P","S","_","U","S","E","R">> :> <<"d","e","p","l","o","y">>),
       (<<"V","P","S","_","H","O","S","T">> :> <<"f","i","l","e",".","e","x","a","m","p","l","e">>) @@ (<<"V","P","S","_","H","O","S","T","N","A","M","E">> :> <<"w","e","b","1">>)
          @@ (<<"V","P","S","_","T","I","M","E","Z","O","N","E">> :> <<"E","u","r","o","p","e","/","P","a","r","i","s">>),
       (<<"V","P","S","_","H","O","S","T">> :> <<"f","i","l","e",".","e","x","a","m","p","l","e">>) @@ (<<"V","P","S","_","U","S","E","R">> :> <<"d","e","p","l","o","y">>),
       (<<"V","P","S","_","U","S","E","R">> :> <<>>) @@ (<<"V","P","S","_","S","S","H","_","P","U","B","K","E","Y">> :> <<"s","s","h","-","e","d","2","5","5","1","9"," ","A","A","A","A","=">>) >>

\* What the file of the call defines.
FileDefines ==
    IF ~libCall.envFile.defined THEN <<>>
    ELSE EnvFileMeanings[CHOOSE i \in 1..Len(EnvFileTexts) : EnvFileTexts[i] = libCall.envFile.text]

\* The value of a setting in the configuration returned; vpsHost and vpsUser
\* are texts, empty when the setting is defined nowhere.
resolvedSetting(key) ==
    IF key = <<"V","P","S","_","H","O","S","T">> THEN Defined(libResult.vpsHost)
    ELSE IF key = <<"V","P","S","_","U","S","E","R">> THEN Defined(libResult.vpsUser)
    ELSE IF key = <<"V","P","S","_","H","O","S","T","N","A","M","E">> THEN libResult.vpsHostname
    ELSE IF key = <<"V","P","S","_","T","I","M","E","Z","O","N","E">> THEN libResult.vpsTimezone
    ELSE libResult.vpsSshPubkey

NowhereDefined(key) ==
    IF key \in { <<"V","P","S","_","H","O","S","T">>, <<"V","P","S","_","U","S","E","R">> } THEN Defined(<<>>) ELSE Undefined

\* C22: loadVPSConfig resolves each of VPS_HOST, VPS_USER, VPS_HOSTNAME,
\* VPS_TIMEZONE and VPS_SSH_PUBKEY with the process environment going over
\* the configuration file: a setting the process environment defines has the
\* value of the process environment, whatever the file says; a setting only
\* the file defines has the value of the file; a setting neither defines is
\* empty (host, user) or undefined.
ProcessEnvTakesPrecedence ==
    (libPc = "returned" /\ libCall.fn = "loadVPSConfig")
      => \A key \in SettingKeys :
            resolvedSetting(key) =
               IF key \in DOMAIN libCall.processEnv THEN Defined(libCall.processEnv[key])
               ELSE IF key \in DOMAIN FileDefines THEN Defined(FileDefines[key])
               ELSE NowhereDefined(key)

\* The file defines VPS_HOST, VPS_HOSTNAME and VPS_TIMEZONE, the process
\* environment VPS_HOST only: the host is the one of the process
\* environment, the host name the one of the file.
ProcessEnvPrecedenceWitness ==
    /\ libPc = "returned"
    /\ libCall.fn = "loadVPSConfig"
    /\ libCall.envFile = Defined(EnvFileTexts[2])
    /\ DOMAIN libCall.processEnv = { <<"V","P","S","_","H","O","S","T">> }
    /\ libResult.vpsHost = <<"e","n","v",".","e","x","a","m","p","l","e">>
    /\ libResult.vpsHostname = Defined(<<"w","e","b","1">>)
    /\ libResult.vpsTimezone = Defined(<<"E","u","r","o","p","e","/","P","a","r","i","s">>)
    /\ libResult.vpsSshPubkey = Undefined

\* ------------------------------------------------------------------------
\* Properties of filterMOTDFromOutput
\* ------------------------------------------------------------------------

\* A call of filterMOTDFromOutput has returned.
FilterReturned == libPc = "returned" /\ libCall.fn = "filterMOTDFromOutput"

\* The positions (1-based) at which a text occurs in another.
occurrences(text, sub) ==
    {i \in 1..(Len(text) - Len(sub) + 1) : SubSeq(text, i, i + Len(sub) - 1) = sub}

\* The last line of a text that is not blank, trimmed; the empty text when
\* every line is blank.
lastNonEmptyLine(text) ==
    LET lines == split(text, "\n")
        full  == {i \in 1..Len(lines) : \E j \in 1..Len(lines[i]) : ~IsWhitespace(lines[i][j])}
    IN  IF full = {} THEN <<>> ELSE trim(lines[MaxOf(full)])

\* The statement of C25 as first written: with a marker the result is the
\* text from the first occurrence of the marker on, and the last non-empty
\* line is never what is returned for a marker that the text does not hold.
MarkerNeverFallsBack ==
    (FilterReturned /\ libCall.outputMarker # <<>>)
      => IF occurrences(libCall.output, libCall.outputMarker) # {}
         THEN libResult = SubSeq(libCall.output,
                                 MinOf(occurrences(libCall.output, libCall.outputMarker)),
                                 Len(libCall.output))
         ELSE lastNonEmptyLine(libCall.output) # <<>>
                => libResult # lastNonEmptyLine(libCall.output)

\* C25: filterMOTDFromOutput with a marker that occurs in the text returns
\* the text from the first occurrence of the marker on; the last non-empty
\* line, trimmed, is returned when the marker is omitted and also when a
\* marker is given that the text does not hold.
MarkerElseLastLine ==
    FilterReturned
      => IF /\ libCall.outputMarker # <<>>
            /\ occurrences(libCall.output, libCall.outputMarker) # {}
         THEN libResult = SubSeq(libCall.output,
                                 MinOf(occurrences(libCall.output, libCall.outputMarker)),
                                 Len(libCall.output))
         ELSE libResult = lastNonEmptyLine(libCall.output)

\* The marker PERMIT_ROOT= is given for a text with a banner and the home
\* directory, which does not hold it: the last line is returned.
MarkerAbsentWitness ==
    /\ FilterReturned
    /\ libCall.outputMarker = <<"P","E","R","M","I","T","_","R","O","O","T","=">>
    /\ libCall.output = <<"W","e","l","c","o","m","e"," ","t","o"," ","U","b","u","n","t","u"," ","2","4",".","0","4","\n","\n"," ","*"," ","D","o","c","u","m","e","n","t","a","t","i","o","n","\n"," "," ","/","h","o","m","e","/","d","e","p","l","o","y"," "," ","\n">>
    /\ libResult = <<"/","h","o","m","e","/","d","e","p","l","o","y">>

\* C26: filterMOTDFromOutput without a marker returns the last of the lines
\* of the text once each is trimmed and the empty ones are dropped, the
\* empty text when no line is left; given its own result, it returns it
\* again.
LastLineIdempotent ==
    (FilterReturned /\ libCall.outputMarker = <<>>)
      => /\ libResult = lastNonEmptyLine(libCall.output)
         /\ \A j \in 1..Len(libResult) : libResult[j] # "\n"
         /\ libResult = trim(libResult)
         /\ filterMOTDFromOutput(libResult, <<>>) = libResult

\* No marker, a banner of three lines and the home directory between
\* spaces: the home directory is returned, without the spaces.
LastLineWitness ==
    /\ FilterReturned
    /\ libCall.outputMarker = <<>>
    /\ Len(split(libCall.output, "\n")) = 5
    /\ libResult = <<"/","h","o","m","e","/","d","e","p","l","o","y">>

\* ------------------------------------------------------------------------
\* Properties of parseSSHConfig
\* ------------------------------------------------------------------------

\* The five keys of the blob, each with the field it fills and the default
\* of the field.
SshConfigKeys ==
    { [key |-> <<"P","E","R","M","I","T","_","R","O","O","T","=">>,    field |-> "permitRootLogin",                 dflt |-> <<"u","n","k","n","o","w","n">>],
      [key |-> <<"P","A","S","S","W","O","R","D","_","A","U","T","H","=">>,  field |-> "passwordAuthentication",          dflt |-> <<"u","n","k","n","o","w","n">>],
      [key |-> <<"C","H","A","L","L","E","N","G","E","_","R","E","S","P","=">>, field |-> "challengeResponseAuthentication", dflt |-> <<"n","o">>],
      [key |-> <<"A","L","L","O","W","_","U","S","E","R","S","=">>,    field |-> "allowUsers",                      dflt |-> <<"n","o","t"," ","s","e","t">>],
      [key |-> <<"U","S","E","_","D","N","S","=">>,        field |-> "useDNS",                          dflt |-> <<"u","n","k","n","o","w","n">>] }

\* The lines of a blob that set a key, by their number.
keyLines(blob, key) ==
    LET lines == split(blob, "\n")
    IN  {i \in 1..Len(lines) : startsWith(trim(lines[i]), key)}

\* The key is absent from the blob, or the line that sets it last gives it
\* no value.
AbsentOrEmpty(blob, key) ==
    \/ keyLines(blob, key) = {}
    \/ trim(split(blob, "\n")[MaxOf(keyLines(blob, key))]) = key

\* C27: parseSSHConfig fills each of the five fields with its default when
\* its key is absent from the blob or present with an empty value: unknown
\* for permitRootLogin, passwordAuthentication and useDNS, no for
\* challengeResponseAuthentication, not set for allowUsers; a blob with none
\* of the keys gives the five defaults, and no field is ever the empty text.
SshConfigDefaults ==
    (libPc = "returned" /\ libCall.fn = "parseSSHConfig")
      => /\ DOMAIN libResult = {k.field : k \in SshConfigKeys}
         /\ \A k \in SshConfigKeys :
               /\ AbsentOrEmpty(libCall.output, k.key) => libResult[k.field] = k.dflt
               /\ libResult[k.field] # <<>>
         /\ (\A k \in SshConfigKeys : keyLines(libCall.output, k.key) = {})
              => libResult = [permitRootLogin                 |-> <<"u","n","k","n","o","w","n">>,
                              passwordAuthentication          |-> <<"u","n","k","n","o","w","n">>,
                              challengeResponseAuthentication |-> <<"n","o">>,
                              allowUsers                      |-> <<"n","o","t"," ","s","e","t">>,
                              useDNS                          |-> <<"u","n","k","n","o","w","n">>]

\* A blob that sets PERMIT_ROOT to yes and USE_DNS to nothing, after a
\* banner: yes is kept, the four other fields have their defaults.
SshConfigDefaultsWitness ==
    /\ libPc = "returned"
    /\ libCall.fn = "parseSSHConfig"
    /\ keyLines(libCall.output, <<"U","S","E","_","D","N","S","=">>) # {}
    /\ keyLines(libCall.output, <<"P","A","S","S","W","O","R","D","_","A","U","T","H","=">>) = {}
    /\ libResult = [permitRootLogin                 |-> <<"y","e","s">>,
                    passwordAuthentication          |-> <<"u","n","k","n","o","w","n">>,
                    challengeResponseAuthentication |-> <<"n","o">>,
                    allowUsers                      |-> <<"n","o","t"," ","s","e","t">>,
                    useDNS                          |-> <<"u","n","k","n","o","w","n">>]

\* ------------------------------------------------------------------------
\* Properties of the insertion of a service block
\* ------------------------------------------------------------------------

\* A descriptor was put into a document that has a services: line.
Inserted ==
    /\ libPc = "returned"
    /\ libCall.fn = "insertService"
    /\ \E k \in 1..Len(split(libCall.content, "\n")) :
          trim(split(libCall.content, "\n")[k]) = <<"s","e","r","v","i","c","e","s",":">>

\* The lines of the document given.
givenLines == split(libCall.content, "\n")

\* The line number of services: in the document given.
servicesLine == MinOf({k \in 1..Len(givenLines) : trim(givenLines[k]) = <<"s","e","r","v","i","c","e","s",":">>})

\* The top-level keys that follow services:, by line number.
keysAfterServices == {k \in (servicesLine + 1)..Len(givenLines) : isTopLevelKey(givenLines[k])}

\* The lines after services: that are neither blank nor a comment.
contentAfterServices ==
    {k \in (servicesLine + 1)..Len(givenLines) :
        trim(givenLines[k]) # <<>> /\ ~startsWith(trim(givenLines[k]), <<"#">>)}

\* The places of the result at which the descriptor stands.
blockAt == {i \in 1..Len(libResult) : libResult[i] = libCall.descriptor}

\* The descriptor stands at one place, an empty line after it, and the
\* lines given stand around the two, in their order and as they were.
BlockPutAt(i) ==
    /\ blockAt = {i}
    /\ i < Len(libResult)
    /\ libResult[i + 1] = <<>>
    /\ SubSeq(libResult, 1, i - 1) \o SubSeq(libResult, i + 2, Len(libResult)) = givenLines

\* C24: compose add places the new service block inside the services
\* section: right before the next top-level key that follows services:, or,
\* when no top-level key follows services:, at the end of the services
\* block, after every existing service; in both cases the lines of the
\* document keep their order and content.
BlockBeforeKeyOrAtEnd ==
    Inserted
      => IF keysAfterServices # {}
         THEN BlockPutAt(MinOf(keysAfterServices))
         ELSE \E i \in 1..Len(libResult) :
                 /\ BlockPutAt(i)
                 /\ \A k \in contentAfterServices : k < i

\* ------------------------------------------------------------------------
\* Properties of the cache of getComposeHome
\* ------------------------------------------------------------------------

\* The call returned a home directory: it did not throw and the text is not
\* empty.
GaveHome(call) == ~call.threw /\ call.value # <<>>

Issues(command) ==
    /\ Len(addCmds') = Len(addCmds) + 1
    /\ addCmds'[Len(addCmds')].run = command

\* C28: git clone never deletes an app directory that holds a git
\* repository: whatever its remote checks come to, rm -rf of the app
\* directory is issued only when the directory is there and has no .git
\* directory in it, and when the directory is a repository the command ends
\* with exit code 1 at its first check, and no step of it issues rm -rf or
\* git clone.
CloneNeverDeletesRepository ==
    /\ [][(addArgs.command = "clone" /\ Issues("rm -rf"))
            => (appDir \in remoteDirs /\ gitDirOf(appDir) \notin remoteDirs)]_vars
    /\ [][(addArgs.command = "clone" /\ addPc = "gitExists" /\ gitDirOf(appDir) \in remoteDirs)
            => (addPc' = "exited" /\ addExit' = 1)]_vars
    /\ [][(addArgs.command = "clone" /\ addPc # "exited" /\ composeHome # <<>>
             /\ gitDirOf(appDir) \in remoteDirs)
            => (~Issues("rm -rf") /\ ~Issues("git clone"))]_vars

\* C29: compose init never modifies a project that is there: when the
\* project directory is on the remote host, whatever the check of it comes
\* to, init ends with exit code 1 at that check, without going on to mkdir
\* or to the writing of docker-compose.yml, and no step of init changes a
\* document that is on the host.
InitNeverModifiesProject ==
    /\ [][(addArgs.command = "init" /\ addPc = "initDirExists" /\ projectDir \in remoteDirs)
            => (addPc' = "exited" /\ addExit' = 1)]_vars
    /\ [][(addArgs.command = "init" /\ addPc = "initDirExists" /\ projectDir \in remoteDirs)
            => (~Issues("mkdir -p") /\ ~Issues("cat >"))]_vars
    /\ [][addArgs'.command = "init"
            => \A f \in DOMAIN remoteFiles :
                  f \in DOMAIN remoteFiles' /\ remoteFiles'[f] = remoteFiles[f]]_vars

\* ------------------------------------------------------------------------
\* Properties of the provisioning script
\* ------------------------------------------------------------------------

\* The line sets the option for sshd: the key in any case at its start,
\* then white space or an equals sign.
setsOption(line, key) ==
    LET rest == trimStart(line)
    IN  /\ Len(rest) > Len(key)
        /\ toLowerCase(SubSeq(rest, 1, Len(key))) = toLowerCase(key)
        /\ (IsWhitespace(rest[Len(key) + 1]) \/ rest[Len(key) + 1] = "=")

linesFor(lines, key) == {k \in 1..Len(lines) : setsOption(lines[k], key)}

\* The run wrote, restarted or enabled the thing named.
RunTouched(run, what) ==
    \E i \in 1..Len(provTouched) : provTouched[i] = [run |-> run, what |-> what]

\* The first run went through and its sshd_config passed the test, and a
\* second run went through after it.
ProvisionedTwice ==
    /\ provRuns = 2
    /\ provPc = "exited"
    /\ provExit = 0
    /\ provisioned # <<>>
    /\ provisioned[1].run = 1
    /\ RunTouched(1, "restart sshd")

\* C23: the provisioning script is idempotent: after a second run on a host
\* it has provisioned, sshd_config is as the first run left it and holds
\* exactly one line for each of PermitRootLogin, PasswordAuthentication,
\* ChallengeResponseAuthentication, UseDNS and AllowUsers, with the value
\* the script sets; the sudoers file holds the passwordless-sudo line
\* exactly once; and daemon.json and jail.local are not written again.
ProvisioningIdempotent ==
    ProvisionedTwice =>
        /\ sshdConfig = provisioned[1].sshdConfig
        /\ \A k \in 1..Len(SshOptions) :
              /\ Cardinality(linesFor(sshdConfig, SshOptions[k].key)) = 1
              /\ \E i \in 1..Len(sshdConfig) :
                    sshdConfig[i] = SshOptions[k].key \o <<" ">> \o SshOptions[k].value
        /\ sudoers = provisioned[1].sudoers
        /\ Cardinality({i \in 1..Len(sudoers) : sudoers[i] = SudoersLine}) = 1
        /\ daemonJson = provisioned[1].daemonJson
        /\ jailLocal = provisioned[1].jailLocal
        /\ ~RunTouched(2, "daemon.json")
        /\ ~RunTouched(2, "jail.local")

\* The sections of the script after the verification of the keys.
AfterVerification ==
    {"sudoers", "hardenSsh", "testConfig", "firewall", "packages", "dockerHardening",
     "fail2ban", "finish"}

====
